---- MODULE Spec2Model ----
(***************************************************************************)
(* Persistent, deterministically balanced collections (Vector, Set, Map)   *)
(* over one tree engine: Node / Level / Branch, a metadata algebra and a   *)
(* copy-on-write node store.                                               *)
(***************************************************************************)
EXTENDS Integers, Sequences, FiniteSets, TLC

(* ------------------------------ bounds --------------------------------- *)
\* number of distinct element values 1..NElem
NElem == 4
\* longest Vector / largest Set or Map that an action builds
MaxLen == 3
\* number of collection slots a behaviour can hold
MaxColl == 4

(* ------------------------------ options -------------------------------- *)
None == <<>>
Some(x) == <<x>>
IsSome(o) == o # <<>>
Unwrap(o) == o[1]

Min(a, b) == IF a < b THEN a ELSE b
SatSub(a, b) == IF a > b THEN a - b ELSE 0

(* ------------------------- u64 as four 16-bit limbs --------------------- *)
\* a u64 is <<l0, l1, l2, l3>>, least significant limb first
Limb == 2 ^ 16

RECURSIVE XorBits(_, _, _)
XorBits(a, b, n) ==
    IF n = 0 THEN 0
    ELSE ((a + b) % 2) + 2 * XorBits(a \div 2, b \div 2, n - 1)

U64Xor(a, b) == [i \in 1..4 |-> XorBits(a[i], b[i], 16)]

U64WrappingAdd(a, b) ==
    LET s1 == a[1] + b[1]
        s2 == a[2] + b[2] + (s1 \div Limb)
        s3 == a[3] + b[3] + (s2 \div Limb)
        s4 == a[4] + b[4] + (s3 \div Limb)
    IN  <<s1 % Limb, s2 % Limb, s3 % Limb, s4 % Limb>>

\* a >> s for 0 <= s <= 63, compared with 1
ShrIsOne(a, s) ==
    LET q == s \div 16
        r == s % 16
    IN  /\ \A j \in (q + 2)..4 : a[j] = 0
        /\ a[q + 1] \div (2 ^ r) = 1

(* ------------------------------ hashing --------------------------------- *)
\* Output of the default hasher for the element values 1..8.
HashTable ==
    << <<24931, 37127, 50630, 34941>>,
       <<1463, 64550, 45413, 16127>>,
       <<60363, 24718, 2727, 26709>>,
       <<56384, 42004, 31067, 2374>>,
       <<57520, 7970, 23383, 5794>>,
       <<16412, 2929, 44313, 57747>>,
       <<25613, 54978, 20844, 1689>>,
       <<60752, 13300, 23362, 14499>> >>

Hash(v) == HashTable[v]

\* Map elements are key/value pairs; Vector and Set elements are plain values
KV(k, v) == [k |-> k, v |-> v]

weight_hash(kind, t) == IF kind = "map" THEN Hash(t.k) ELSE Hash(t)

\* leading zero bits of the hash; the loop indexes bit 63 - w
WeightPanic == 0 - 1

RECURSIVE weightLoop(_, _)
weightLoop(a, w) ==
    IF w > 63 THEN WeightPanic
    ELSE IF ShrIsOne(a, 63 - w) THEN w
    ELSE weightLoop(a, w + 1)

weight(kind, t) == weightLoop(weight_hash(kind, t), 0)

divisor == 2

(* ------------------------------ metadata -------------------------------- *)
CheckSumMerge(a, b) == U64WrappingAdd(U64Xor(a, b), a)

CardinalityMerge(a, b) == a + b

MaxMerge(a, b) == IF b > a THEN b ELSE a

\* compound metadata generated per collection type
from_t(kind, t) ==
    CASE kind = "vector" -> [cardinality |-> 1, checksum |-> Hash(t)]
      [] kind = "set"    -> [max |-> t, checksum |-> Hash(t)]
      [] kind = "map"    -> [key |-> t.k, keysum |-> Hash(t.k), valsum |-> Hash(t.v)]

merge(kind, a, b) ==
    CASE kind = "vector" ->
             [cardinality |-> CardinalityMerge(a.cardinality, b.cardinality),
              checksum |-> CheckSumMerge(a.checksum, b.checksum)]
      [] kind = "set" ->
             [max |-> MaxMerge(a.max, b.max),
              checksum |-> CheckSumMerge(a.checksum, b.checksum)]
      [] kind = "map" ->
             [key |-> MaxMerge(a.key, b.key),
              keysum |-> CheckSumMerge(a.keysum, b.keysum),
              valsum |-> CheckSumMerge(a.valsum, b.valsum)]

\* the CheckSum view of a compound metadata value
SubMetaCheckSum(kind, m) ==
    IF kind = "map" THEN U64Xor(m.keysum, m.valsum) ELSE m.checksum

\* the view that union compares subtrees by: CheckSum for Sets, KeySum for Maps
SubMetaE(kind, m) == IF kind = "map" THEN m.keysum ELSE m.checksum

\* the view that union orders leaves by: Max for Sets, Key for Maps
SubMetaF(kind, m) == IF kind = "map" THEN m.key ELSE m.max

\* Select: the search key is a Cardinality for Vectors, Max for Sets, Key for Maps
\* variant: a Miss leaves the search key as it is (no countdown)
CardinalitySelect_keep(key, other) ==
    IF key < other THEN [sel |-> "Hit", key |-> key]
    ELSE [sel |-> "Miss", key |-> key]

CardinalitySelect(key, other) ==
    IF key < other THEN [sel |-> "Hit", key |-> key]
    ELSE [sel |-> "Miss", key |-> key - other]

MaxSelect(key, other) ==
    IF key = other THEN [sel |-> "Hit", key |-> key]
    ELSE IF key < other THEN [sel |-> "Between", key |-> key]
    ELSE [sel |-> "Miss", key |-> key]

select(kind, key, m) ==
    CASE kind = "vector" -> CardinalitySelect(key, m.cardinality)
      [] kind = "set"    -> MaxSelect(key, m.max)
      [] kind = "map"    -> MaxSelect(key, m.key)

(* ------------------------------ sequences ------------------------------- *)
\* offsets are 0-based, as in the source
At(s, i) == s[i + 1]
InRange(s, i) == i >= 0 /\ i < Len(s)
Take(s, n) == SubSeq(s, 1, n)
Drop(s, n) == SubSeq(s, n + 1, Len(s))
InsertAt(s, i, x) == Take(s, i) \o <<x>> \o Drop(s, i)
RemoveAt(s, i) == Take(s, i) \o Drop(s, i + 1)
SetAt(s, i, x) == [s EXCEPT ![i + 1] = x]

(* -------------------------------- Child --------------------------------- *)
new_leaf(t) == [leaf |-> TRUE, t |-> t]
new_node(location, m) == [leaf |-> FALSE, location |-> location, meta |-> m]

Child_meta(kind, c) == IF c.leaf THEN from_t(kind, c.t) ELSE c.meta

(* -------------------------------- Node ---------------------------------- *)
\* a Node is the sequence of its children
Node_new == <<>>

Node_concat(a, b) == a \o b

Node_concat_middle(a, b) == a \o Drop(b, 1)

Node_single(child) == <<child>>

\* variant: the weight of a node is read from its first child
Node_weight_first(kind, node) ==
    IF Len(node) = 0 THEN 0
    ELSE weight(kind, node[1].t) \div divisor

Node_weight(kind, node) ==
    IF Len(node) = 0 THEN 0
    ELSE weight(kind, node[Len(node)].t) \div divisor

RECURSIVE Node_meta_fold(_, _, _, _)
Node_meta_fold(kind, node, i, m) ==
    IF i > Len(node) THEN m
    ELSE Node_meta_fold(kind, node, i + 1,
                        IF IsSome(m)
                        THEN Some(merge(kind, Unwrap(m), Child_meta(kind, node[i])))
                        ELSE Some(Child_meta(kind, node[i])))

Node_meta(kind, node) == Node_meta_fold(kind, node, 1, None)

\* variant: the prefix includes the child at ofs
Node_left_incl(node, ofs) == Take(node, ofs + 1)

Node_left(node, ofs) == Take(node, ofs)

Node_right(node, ofs) == Drop(node, ofs)

Node_insert(node, ofs, child) == InsertAt(node, ofs, child)

Node_remove(node, ofs) == IF InRange(node, ofs) THEN RemoveAt(node, ofs) ELSE node

Node_child(node, ofs) == IF InRange(node, ofs) THEN Some(At(node, ofs)) ELSE None

Node_update(node, ofs, child) == SetAt(node, ofs, child)

Node_merge(node, from) == node \o from

Node_bottom(node) == ~(Len(node) > 0 /\ ~node[1].leaf)

\* a remove_t that takes the first leaf of the node whatever the offset
Node_remove_t_first(kind, node, ofs) ==
    LET t == At(node, 0).t
        w == weight(kind, t) \div divisor
        rest == RemoveAt(node, 0)
    IN  [node |-> rest,
         t |-> t,
         depth |-> w,
         res |-> IF w > 0 THEN "Merge"
                 ELSE IF Len(rest) = 0 THEN "Final" ELSE "Ok"]

\* RemoveResult of Node::remove_t, the node being non-empty and holding a leaf at ofs
Node_remove_t(kind, node, ofs) ==
    LET t == At(node, ofs).t
        w == weight(kind, t) \div divisor
        rest == RemoveAt(node, ofs)
    IN  [node |-> rest,
         t |-> t,
         depth |-> w,
         res |-> IF w > 0 THEN "Merge"
                 ELSE IF Len(rest) = 0 THEN "Final" ELSE "Ok"]

(* ------------------------------- Freezer -------------------------------- *)
\* A freezer value fz is the node arena seen through one handle fz.h:
\*   nodes[l]  the node at location l
\*   owner[l]  the handle whose hot tier holds the node, 0 once the node is frozen
\*   handles   number of handles handed out so far
put(fz, node) ==
    [fz |-> [fz EXCEPT !.nodes = Append(@, node), !.owner = Append(@, fz.h)],
     loc |-> Len(fz.nodes) + 1]

\* Backend: the position of the blob stored under a digest, 0 when there is none
Backend_find(be, digest) ==
    IF \E i \in 1..Len(be) : be[i].digest = digest
    THEN CHOOSE i \in 1..Len(be) : be[i].digest = digest
    ELSE 0

\* Backend::put is idempotent: a digest that is there keeps its blob
Backend_put(be, digest, bytes) ==
    IF Backend_find(be, digest) # 0 THEN be
    ELSE Append(be, [digest |-> digest, bytes |-> bytes])

\* a Location that bears a digest and lies in no tier is written as the
\* position of the digest in the backend, negated
from_hash(fz, digest) == 0 - Backend_find(fz.backend, digest)

\* the digest of a stream of hashed values: the hash is taken to be collision-free
Digest(stream) == [of |-> stream]

\* a freeze that writes the children last to first
Node_freeze_reversed(node, digests) ==
    [bytes |-> <<Len(node), Node_bottom(node)>>
               \o [i \in 1..Len(node) |->
                      IF node[Len(node) + 1 - i].leaf THEN node[Len(node) + 1 - i].t
                      ELSE [digest |-> digests[Len(node) + 1 - i],
                            meta |-> node[Len(node) + 1 - i].meta]],
     hashed |-> <<Len(node), Node_bottom(node)>>
                \o [i \in 1..Len(node) |->
                       IF node[i].leaf THEN node[i].t ELSE digests[i]]]

\* Node::freeze writes len, bottom and the children: a leaf as its element, a
\* node as the digest of its location followed by its metadata, the metadata
\* bypassing the hash; digests[i] is the digest the location of child i bears
Node_freeze(node, digests) ==
    [bytes |-> <<Len(node), Node_bottom(node)>>
               \o [i \in 1..Len(node) |->
                      IF node[i].leaf THEN node[i].t
                      ELSE [digest |-> digests[i], meta |-> node[i].meta]],
     hashed |-> <<Len(node), Node_bottom(node)>>
                \o [i \in 1..Len(node) |->
                       IF node[i].leaf THEN node[i].t ELSE digests[i]]]

\* Node::thaw reads len and bottom, then len leaves or len nodes
Node_thaw(fz, bytes) ==
    LET len == bytes[1]
        bottom == bytes[2]
    IN  IF bottom
        THEN [i \in 1..len |-> new_leaf(bytes[i + 2])]
        ELSE [i \in 1..len |-> new_node(from_hash(fz, bytes[i + 2].digest), bytes[i + 2].meta)]

\* a node that lies in no tier is thawed from the cold tier
get(fz, loc) == IF loc < 0 THEN Node_thaw(fz, fz.backend[0 - loc].bytes) ELSE fz.nodes[loc]

\* copy-on-write lifting: a node outside the handle's hot tier is copied into it
get_mut(fz, loc) ==
    IF loc < 0 THEN put(fz, get(fz, loc))
    ELSE IF fz.owner[loc] = fz.h THEN [fz |-> fz, loc |-> loc]
    ELSE put(fz, fz.nodes[loc])

\* freeze walks the children first, so that a node is written with the digests
\* of its children, and returns the digest of the node at loc
RECURSIVE Freezer_freeze(_, _)
RECURSIVE freeze_children(_, _, _)
freeze_children(fz, node, i) ==
    IF i > Len(node) THEN [fz |-> fz, digests |-> <<>>]
    ELSE LET r == IF node[i].leaf THEN [fz |-> fz, digest |-> None]
                  ELSE Freezer_freeze(fz, node[i].location)
             rest == freeze_children(r.fz, node, i + 1)
         IN  [fz |-> rest.fz, digests |-> <<r.digest>> \o rest.digests]

Freezer_freeze(fz, loc) ==
    LET node == get(fz, loc)
        ch == freeze_children(fz, node, 1)
        fr == Node_freeze(node, ch.digests)
    IN  [fz |-> [ch.fz EXCEPT !.backend = Backend_put(@, Digest(fr.hashed), fr.bytes)],
         digest |-> Digest(fr.hashed)]

\* the write through the mutable reference that get_mut returned
write(fz, loc, node) == [fz EXCEPT !.nodes[loc] = node]

\* freezes the hot tier of the handle and hands out a new handle, numbered
\* result.handles, that shares every tier
Freezer_clone(fz) ==
    [fz EXCEPT !.owner = [l \in DOMAIN fz.owner |->
                             IF fz.owner[l] = fz.h THEN 0 ELSE fz.owner[l]],
               !.handles = @ + 1]

\* folds the tiers of handle other into those of fz.h
Freezer_merge(fz, other) ==
    [fz EXCEPT !.owner = [l \in DOMAIN fz.owner |->
                             IF fz.owner[l] \in {fz.h, other} THEN 0
                             ELSE fz.owner[l]]]

(* ------------------------------- Relative ------------------------------- *)
\* direction tags of a Level: "Beginning" counts offsets from the left,
\* "End" from the right
from_end(R) == R = "End"

\* an offset counted from the front whatever the direction
R_at_front(R, i, len) == i

R_at(R, i, len) == IF from_end(R) THEN SatSub(len - i, 1) ELSE i

R_insert(R, i, len) == IF from_end(R) THEN len - i ELSE i

R_after(R, i, len) == IF from_end(R) THEN len - i - 1 ELSE i + 1

Opposite(R) == IF from_end(R) THEN "Beginning" ELSE "End"

(* -------------------------------- Level --------------------------------- *)
\* Call(f, a) stands for the operation named f applied to the argument tuple
\* a; the operations from here on reach one another through it
RECURSIVE Call(_, _)

Level_new(location) == [ofs |-> 0, location |-> location]

Level_child_at(R, fz, lv, ofs) ==
    LET node == get(fz, lv.location)
    IN  Node_child(node, R_at(R, ofs, Len(node)))

Level_child(R, fz, lv) == Level_child_at(R, fz, lv, lv.ofs)

\* removes the child at the raw offset; yields the removed child's node when
\* that child was a Node
Level_remove(fz, lv) ==
    LET g == get_mut(fz, lv.location)
        node == get(g.fz, g.loc)
        c == Node_child(node, lv.ofs)
        fz1 == write(g.fz, g.loc, Node_remove(node, lv.ofs))
    IN  IF IsSome(c) /\ ~Unwrap(c).leaf
        THEN [fz |-> fz1,
              lv |-> [ofs |-> SatSub(lv.ofs, 1), location |-> g.loc],
              removed |-> Some(get(fz1, Unwrap(c).location))]
        ELSE [fz |-> fz1,
              lv |-> [ofs |-> lv.ofs, location |-> g.loc],
              removed |-> None]

Level_update_child(kind, R, fz, lv, with) ==
    LET new_meta == Call("Node_meta", <<kind, get(fz, with)>>)
    IN  IF IsSome(new_meta)
        THEN LET g == get_mut(fz, lv.location)
                 node == get(g.fz, g.loc)
                 at == R_at(R, lv.ofs, Len(node))
             IN  [fz |-> write(g.fz, g.loc,
                               Node_update(node, at, new_node(with, Unwrap(new_meta)))),
                  lv |-> [lv EXCEPT !.location = g.loc]]
        ELSE LET r == Call("Level_remove", <<fz, lv>>)
             IN  [fz |-> r.fz, lv |-> r.lv]

Level_left(R, fz, lv) ==
    LET node == get(fz, lv.location)
        len == Len(node)
        at == R_at(R, lv.ofs, len)
    IN  IF at = 0 THEN [fz |-> fz, loc |-> None]
        ELSE IF at = len THEN [fz |-> fz, loc |-> Some(lv.location)]
        ELSE LET p == put(fz, Node_left(node, at))
             IN  [fz |-> p.fz, loc |-> Some(p.loc)]

Level_right(R, fz, lv) ==
    LET node == get(fz, lv.location)
        len == Len(node)
        at == R_at(R, lv.ofs, len)
    IN  IF at = 0 THEN [fz |-> fz, loc |-> lv.location]
        ELSE put(fz, IF at = len THEN Node_new ELSE Node_right(node, at))

Level_steppable(fz, lv) == IsSome(Node_child(get(fz, lv.location), lv.ofs + 1))

\* variant: a step passes over the next child
Level_step_skip(fz, lv) ==
    IF Level_steppable(fz, lv) THEN Some([lv EXCEPT !.ofs = @ + 2]) ELSE None

\* Some(level stepped) or None
Level_step(fz, lv) ==
    IF Level_steppable(fz, lv) THEN Some([lv EXCEPT !.ofs = @ + 1]) ELSE None

Level_force_step(lv) == [lv EXCEPT !.ofs = @ + 1]

Level_insert(R, fz, lv, child) ==
    LET g == get_mut(fz, lv.location)
        node == get(g.fz, g.loc)
    IN  [fz |-> write(g.fz, g.loc,
                      Node_insert(node, R_insert(R, lv.ofs, Len(node)), child)),
         lv |-> [lv EXCEPT !.location = g.loc]]

Level_insert_loc(kind, R, fz, lv, loc) ==
    LET m == Call("Node_meta", <<kind, get(fz, loc)>>)
    IN  IF IsSome(m) THEN Call("Level_insert", <<R, fz, lv, new_node(loc, Unwrap(m))>>)
        ELSE [fz |-> fz, lv |-> lv]

Level_insert_after(R, fz, lv, child) ==
    LET g == get_mut(fz, lv.location)
        node == get(g.fz, g.loc)
    IN  [fz |-> write(g.fz, g.loc,
                      Node_insert(node, R_after(R, lv.ofs, Len(node)), child)),
         lv |-> [lv EXCEPT !.location = g.loc]]

\* variant: an insert counted from the beginning never asks for a split
Level_insert_t_nosplit(kind, R, fz, lv, t) ==
    LET g == get_mut(fz, lv.location)
        node == get(g.fz, g.loc)
        len == Len(node)
        self_weight == Call("Node_weight", <<kind, node>>)
        fz1 == write(g.fz, g.loc,
                     Node_insert(node, R_insert(R, lv.ofs, len), new_leaf(t)))
    IN  [fz |-> fz1,
         lv |-> [lv EXCEPT !.location = g.loc],
         split |-> IF len = 0 THEN 0
                   ELSE IF from_end(R) /\ self_weight > 0 THEN self_weight
                   ELSE 0]

\* split = 0 stands for InsertResult::Ok, split = d > 0 for InsertResult::Split(d)
Level_insert_t(kind, R, fz, lv, t) ==
    LET w == weight(kind, t) \div divisor
        g == get_mut(fz, lv.location)
        node == get(g.fz, g.loc)
        len == Len(node)
        self_weight == Call("Node_weight", <<kind, node>>)
        fz1 == write(g.fz, g.loc,
                     Node_insert(node, R_insert(R, lv.ofs, len), new_leaf(t)))
    IN  [fz |-> fz1,
         lv |-> [lv EXCEPT !.location = g.loc],
         split |-> IF len = 0 THEN 0
                   ELSE IF from_end(R) /\ self_weight > 0 THEN self_weight
                   ELSE IF ~from_end(R) /\ w > 0 THEN w
                   ELSE 0]

Level_remove_next(fz, lv) ==
    LET r == Call("Level_remove", <<fz, [lv EXCEPT !.ofs = @ + 1]>>)
    IN  IF IsSome(r.removed) THEN r
        ELSE [r EXCEPT !.lv.ofs = SatSub(@, 1)]

\* res = "Void" when the node is empty, else the RemoveResult of Node::remove_t
Level_remove_t(kind, fz, lv) ==
    LET g == get_mut(fz, lv.location)
        node == get(g.fz, g.loc)
        lv1 == [lv EXCEPT !.location = g.loc]
    IN  IF Len(node) = 0
        THEN [fz |-> g.fz, lv |-> lv1, res |-> "Void", t |-> None, depth |-> 0]
        ELSE LET r == Node_remove_t(kind, node, lv.ofs)
             IN  [fz |-> write(g.fz, g.loc, r.node), lv |-> lv1,
                  res |-> r.res, t |-> Some(r.t), depth |-> r.depth]

Level_split(kind, R, fz, lv) ==
    LET g == get_mut(fz, lv.location)
        node == get(g.fz, g.loc)
        at == R_after(R, lv.ofs, Len(node))
        kept == IF from_end(R) THEN Drop(node, at) ELSE Take(node, at)
        new == IF from_end(R) THEN Take(node, at) ELSE Drop(node, at)
        p == put(write(g.fz, g.loc, kept), new)
    IN  [fz |-> p.fz,
         lv |-> [lv EXCEPT !.location = g.loc],
         child |-> new_node(p.loc, Unwrap(Call("Node_meta", <<kind, new>>)))]

Level_merge(fz, lv, from) ==
    LET g == get_mut(fz, lv.location)
    IN  [fz |-> write(g.fz, g.loc, Node_merge(get(g.fz, g.loc), from)),
         lv |-> [lv EXCEPT !.location = g.loc]]

\* Found: "Hit", "Between", "Miss" or "Node" with the child's location
RECURSIVE Level_find_loop(_, _, _, _, _)
Level_find_loop(kind, R, node, ofs, search) ==
    LET child == Node_child(node, R_at(R, ofs, Len(node)))
    IN  IF ~IsSome(child)
        THEN [found |-> "Miss", ofs |-> ofs, search |-> search, location |-> 0]
        ELSE LET c == Unwrap(child)
                 s == select(kind, search, Child_meta(kind, c))
             IN  IF s.sel = "Miss"
                 THEN Level_find_loop(kind, R, node, ofs + 1, s.key)
                 ELSE IF ~c.leaf
                 THEN [found |-> "Node", ofs |-> ofs, search |-> s.key,
                       location |-> c.location]
                 ELSE [found |-> s.sel, ofs |-> ofs, search |-> s.key,
                       location |-> 0]

Level_find(kind, R, fz, lv, search) ==
    LET node == get(fz, lv.location)
    IN  IF Len(node) = 0
        THEN [found |-> "Between", ofs |-> lv.ofs, search |-> search, location |-> 0]
        ELSE Level_find_loop(kind, R, node, lv.ofs, search)

\* variant: the right node's first child is kept at every level
Level_concat_whole(R, fz, left, right) ==
    LET lnode == get(fz, left)
        rnode == get(fz, right)
        new == IF Len(rnode) = 0 THEN lnode ELSE Node_concat(lnode, rnode)
        ofs == IF Len(rnode) = 0 THEN 0
               ELSE IF from_end(R) THEN Len(rnode) - 1
               ELSE Len(lnode)
        p == put(fz, new)
    IN  [fz |-> p.fz, lv |-> [ofs |-> ofs, location |-> p.loc]]

Level_concat(R, fz, left, right) ==
    LET lnode == get(fz, left)
        rnode == get(fz, right)
        new == IF Len(rnode) = 0 THEN lnode
               ELSE IF ~Node_bottom(lnode) THEN Node_concat_middle(lnode, rnode)
               ELSE Node_concat(lnode, rnode)
        ofs == IF Len(rnode) = 0 THEN 0
               ELSE IF from_end(R) THEN Len(rnode) - 1
               ELSE Len(lnode)
        p == put(fz, new)
    IN  [fz |-> p.fz, lv |-> [ofs |-> ofs, location |-> p.loc]]

Level_reverse(fz, lv) ==
    [ofs |-> Len(get(fz, lv.location)) - lv.ofs - 1, location |-> lv.location]

(* -------------------------------- Branch -------------------------------- *)
\* a Branch is the sequence of its levels, root first
Branch_new(root) == <<Level_new(root)>>

depth(br) == Len(br)

root(br) == br[1].location

bottom(br) == br[Len(br)]

SetLevel(br, i, lv) == [br EXCEPT ![i] = lv]

trim(br, amount) == Take(br, SatSub(Len(br), amount))

RECURSIVE extend(_, _, _)
extend(R, fz, br) ==
    LET c == Level_child(R, fz, bottom(br))
    IN  IF IsSome(c) /\ ~Unwrap(c).leaf
        THEN extend(R, fz, Append(br, Level_new(Unwrap(c).location)))
        ELSE br

Branch_first(R, fz, rt) == Call("extend", <<R, fz, Branch_new(rt)>>)

Branch_empty(fz, br) == Len(get(fz, root(br))) = 0

level_meta(kind, fz, br, from_bottom) ==
    IF from_bottom >= depth(br) THEN None
    ELSE Call("Node_meta", <<kind, get(fz, br[depth(br) - from_bottom].location)>>)

leaf(R, fz, br) ==
    LET c == Level_child(R, fz, bottom(br))
    IN  IF IsSome(c) /\ Unwrap(c).leaf THEN Some(Unwrap(c).t) ELSE None

\* levels are examined from the one above the bottom up to the root;
\* the result is a 0-based level index
RECURSIVE steppable_depth_loop(_, _, _)
steppable_depth_loop(fz, br, i) ==
    IF i >= Len(br) THEN None
    ELSE IF Level_steppable(fz, br[Len(br) - i]) THEN Some(Len(br) - i - 1)
    ELSE steppable_depth_loop(fz, br, i + 1)

steppable_depth(fz, br) == steppable_depth_loop(fz, br, 1)

RECURSIVE find_full(_, _, _, _, _)
find_full(kind, R, fz, br, search) ==
    LET f == Call("Level_find", <<kind, R, fz, bottom(br), search>>)
        br1 == SetLevel(br, Len(br), [bottom(br) EXCEPT !.ofs = f.ofs])
    IN  CASE f.found \in {"Hit", "Between"} ->
                 [sel |-> f.found, br |-> br1, search |-> f.search]
          [] f.found = "Node" ->
                 find_full(kind, R, fz, Append(br1, Level_new(f.location)), f.search)
          [] f.found = "Miss" ->
                 LET d == Call("steppable_depth", <<fz, br1>>)
                 IN  IF IsSome(d)
                     THEN find_full(kind, R, fz,
                                    trim(br1, depth(br1) - Unwrap(d) - 1), f.search)
                     ELSE [sel |-> "Miss", br |-> br1, search |-> f.search]

new_full(kind, R, fz, rt, search) == Call("find_full", <<kind, R, fz, Branch_new(rt), search>>)

RECURSIVE find_first_root(_, _)
find_first_root(fz, br) ==
    LET node == get(fz, root(br))
    IN  IF Len(node) = 1 /\ ~node[1].leaf
        THEN find_first_root(fz, <<[br[1] EXCEPT !.location = node[1].location]>>)
        ELSE br

\* at is the 1-based index of the level whose child is refreshed
RECURSIVE propagate_loop(_, _, _, _, _)
propagate_loop(kind, R, fz, br, at) ==
    IF at < 1 THEN [fz |-> fz, br |-> br]
    ELSE LET u == Call("Level_update_child", <<kind, R, fz, br[at], br[at + 1].location>>)
         IN  propagate_loop(kind, R, u.fz, SetLevel(br, at, u.lv), at - 1)

propagate(kind, R, fz, br) == Call("propagate_loop", <<kind, R, fz, br, depth(br) - 1>>)

RECURSIVE propagate_insert_loop(_, _, _, _, _)
propagate_insert_loop(kind, R, fz, br, at) ==
    IF at < 1 THEN [fz |-> fz, br |-> br]
    ELSE LET u == Call("Level_insert_loc", <<kind, R, fz, br[at], br[at + 1].location>>)
         IN  propagate_insert_loop(kind, R, u.fz, SetLevel(br, at, u.lv), at - 1)

propagate_insert(kind, R, fz, br) ==
    Call("propagate_insert_loop", <<kind, R, fz, br, depth(br) - 1>>)

RECURSIVE ensure_depth(_, _, _, _)
ensure_depth(kind, fz, br, d) ==
    IF depth(br) >= d THEN [fz |-> fz, br |-> br]
    ELSE LET top_loc == root(br)
             meta == Unwrap(Call("Node_meta", <<kind, get(fz, top_loc)>>))
             p == put(fz, Node_single(new_node(top_loc, meta)))
         IN  ensure_depth(kind, p.fz, <<Level_new(p.loc)>> \o br, d)

\* step i of the loop splits level len - i and inserts the new sibling one level up
RECURSIVE split_loop(_, _, _, _, _, _)
split_loop(kind, R, fz, br, d, i) ==
    IF i >= d THEN [fz |-> fz, br |-> br]
    ELSE LET len == Len(br)
             sp == Call("Level_split", <<kind, R, fz, br[len - i]>>)
             ia == Call("Level_insert_after", <<R, sp.fz, br[len - i - 1], sp.child>>)
         IN  split_loop(kind, R, ia.fz,
                        SetLevel(SetLevel(br, len - i, sp.lv), len - i - 1, ia.lv),
                        d, i + 1)

\* variant: only the bottom level is split, whatever the depth asked for
split_once(kind, R, fz, br, d) == Call("split_loop", <<kind, R, fz, br, 1, 0>>)

split(kind, R, fz, br, d) == Call("split_loop", <<kind, R, fz, br, d, 0>>)

Branch_insert(kind, R, fz, br, t) ==
    LET r == Call("Level_insert_t", <<kind, R, fz, bottom(br), t>>)
        br1 == SetLevel(br, Len(br), r.lv)
    IN  IF r.split = 0 THEN Call("propagate", <<kind, R, r.fz, br1>>)
        ELSE LET e == Call("ensure_depth", <<kind, r.fz, br1, r.split + 1>>)
                 sp == Call("split", <<kind, R, e.fz, e.br, r.split>>)
             IN  Call("propagate", <<kind, R, sp.fz, sp.br>>)

\* leaf_mut lifts the bottom node to the hot tier whether or not a leaf is there
Branch_update(kind, R, fz, br, t) ==
    LET lv == bottom(br)
        g == get_mut(fz, lv.location)
        node == get(g.fz, g.loc)
        c == Node_child(node, R_at(R, lv.ofs, Len(node)))
        fz1 == IF IsSome(c) /\ Unwrap(c).leaf
               THEN write(g.fz, g.loc,
                          Node_update(node, R_at(R, lv.ofs, Len(node)), new_leaf(t)))
               ELSE g.fz
    IN  Call("propagate", <<kind, R, fz1, SetLevel(br, Len(br), [lv EXCEPT !.location = g.loc])>>)

\* i counts the merges done; offset is the 0-based index of the topmost merged level
RECURSIVE merge_loop(_, _, _, _, _)
merge_loop(fz, br, offset, mergers, i) ==
    IF i >= mergers THEN [fz |-> fz, br |-> br]
    ELSE LET top == offset + i + 1
             r == Call("Level_remove_next", <<fz, br[top]>>)
             br1 == SetLevel(br, top, r.lv)
         IN  IF IsSome(r.removed)
             THEN LET m == Call("Level_merge", <<r.fz, br1[top + 1], Unwrap(r.removed)>>)
                  IN  merge_loop(m.fz, SetLevel(br1, top + 1, m.lv),
                                 offset, mergers, i + 1)
             ELSE merge_loop(r.fz, br1, offset, mergers, i + 1)

\* a merge that leaves the nodes beside the removed element apart
Branch_merge_none(fz, br, d) == [fz |-> fz, br |-> br]

Branch_merge(fz, br, d) ==
    LET mergers == Min(d, depth(br) - 1)
    IN  Call("merge_loop", <<fz, br, depth(br) - mergers - 1, mergers, 0>>)

\* t is the removed element, None when the bottom node was empty
Branch_remove(kind, R, fz, br) ==
    LET r == Call("Level_remove_t", <<kind, fz, bottom(br)>>)
        br1 == SetLevel(br, Len(br), r.lv)
    IN  CASE r.res = "Void" -> [fz |-> r.fz, br |-> br1, t |-> None]
          [] r.res = "Ok" ->
                 LET pr == Call("propagate", <<kind, R, r.fz, br1>>)
                 IN  [fz |-> pr.fz, br |-> pr.br, t |-> r.t]
          [] r.res = "Final" ->
                 LET pr == Call("propagate", <<kind, R, r.fz, br1>>)
                 IN  [fz |-> pr.fz, br |-> Call("find_first_root", <<pr.fz, pr.br>>), t |-> r.t]
          [] r.res = "Merge" ->
                 LET mg == Call("Branch_merge", <<r.fz, br1, r.depth>>)
                     pr == Call("propagate", <<kind, R, mg.fz, mg.br>>)
                 IN  [fz |-> pr.fz, br |-> Call("find_first_root", <<pr.fz, pr.br>>), t |-> r.t]

\* d is the 1-based index of the level that is tried next
RECURSIVE step_loop(_, _, _, _)
step_loop(R, fz, br, d) ==
    LET s == Level_step(fz, br[d])
    IN  IF IsSome(s)
        THEN [br |-> Call("extend", <<R, fz, Take(SetLevel(br, d, Unwrap(s)), d)>>), ok |-> TRUE]
        ELSE IF d = 1
        THEN [br |-> SetLevel(br, Len(br), Level_force_step(bottom(br))), ok |-> FALSE]
        ELSE step_loop(R, fz, br, d - 1)

Branch_step(R, fz, br) ==
    LET s == Level_step(fz, bottom(br))
    IN  IF IsSome(s) THEN [br |-> SetLevel(br, Len(br), Unwrap(s)), ok |-> TRUE]
        ELSE IF depth(br) < 2
        THEN [br |-> SetLevel(br, Len(br), Level_force_step(bottom(br))), ok |-> FALSE]
        ELSE Call("step_loop", <<R, fz, br, depth(br) - 1>>)

\* levels of the part to the left of the cursor, root first
RECURSIVE left_loop(_, _, _, _, _)
left_loop(R, fz, br, i, levels) ==
    IF i > Len(br) THEN [fz |-> fz, levels |-> levels]
    ELSE LET l == Call("Level_left", <<R, fz, br[i]>>)
         IN  IF IsSome(l.loc)
             THEN left_loop(R, l.fz, br, i + 1, Append(levels, Level_new(Unwrap(l.loc))))
             ELSE IF Len(levels) > 0
             THEN LET p == put(l.fz, Node_new)
                  IN  left_loop(R, p.fz, br, i + 1, Append(levels, Level_new(p.loc)))
             ELSE left_loop(R, l.fz, br, i + 1, levels)

\* the result is a Branch in direction End
Branch_left(kind, R, fz, br) ==
    LET ll == Call("left_loop", <<R, fz, br, 1, <<>>>>)
    IN  IF Len(ll.levels) > 0
        THEN LET pr == Call("propagate_insert", <<kind, "End", ll.fz, ll.levels>>)
             IN  [fz |-> pr.fz, br |-> Call("Branch_first", <<"End", pr.fz, root(pr.br)>>)]
        ELSE LET p == put(ll.fz, Node_new)
             IN  [fz |-> p.fz, br |-> Branch_new(p.loc)]

\* levels of the part from the cursor on, computed bottom level first
RECURSIVE right_loop(_, _, _, _, _)
right_loop(R, fz, br, i, levels) ==
    IF i < 1 THEN [fz |-> fz, levels |-> levels]
    ELSE LET r == Call("Level_right", <<R, fz, br[i]>>)
         IN  right_loop(R, r.fz, br, i - 1, <<Level_new(r.loc)>> \o levels)

\* the result is a Branch in direction Beginning
Branch_right(kind, R, fz, br) ==
    LET rl == Call("right_loop", <<R, fz, br, Len(br), <<>>>>)
        pr == Call("propagate", <<kind, "Beginning", rl.fz, rl.levels>>)
    IN  [fz |-> pr.fz,
         br |-> Call("extend", <<"Beginning", pr.fz, Call("find_first_root", <<pr.fz, pr.br>>)>>)]

Branch_reverse(O, fz, br) == Call("Branch_first", <<O, fz, root(br)>>)

\* levels are paired from the bottom; i counts the pairs done
RECURSIVE concat_loop(_, _, _, _, _, _)
concat_loop(R, fz, self, right, i, levels) ==
    LET si == Len(self) - i
        ri == Len(right) - i
    IN  IF si >= 1 /\ ri >= 1
        THEN LET c == Call("Level_concat", <<R, fz, self[si].location, right[ri].location>>)
             IN  concat_loop(R, c.fz, self, right, i + 1, <<c.lv>> \o levels)
        ELSE IF si >= 1
        THEN concat_loop(R, fz, self, right, i + 1, <<self[si]>> \o levels)
        ELSE IF ri >= 1
        THEN concat_loop(R, fz, self, right, i + 1,
                         <<Level_reverse(fz, right[ri])>> \o levels)
        ELSE [fz |-> fz, levels |-> levels]

\* self is a Branch in direction R, right one in the opposite direction
Branch_concat(kind, R, fz, self, right) ==
    IF Branch_empty(fz, self)
    THEN [fz |-> fz, br |-> Call("Branch_reverse", <<R, fz, right>>)]
    ELSE IF Branch_empty(fz, right)
    THEN [fz |-> fz, br |-> self]
    ELSE LET lf == Call("leaf", <<R, fz, self>>)
             self_weight == IF IsSome(lf)
                            THEN weight(kind, Unwrap(lf)) \div divisor
                            ELSE 0
             cl == Call("concat_loop", <<R, fz, self, right, 0, <<>>>>)
             sp == IF self_weight > 0
                   THEN LET e == Call("ensure_depth", <<kind, cl.fz, cl.levels, self_weight + 1>>)
                        IN  Call("split", <<kind, R, e.fz, e.br, self_weight>>)
                   ELSE [fz |-> cl.fz, br |-> cl.levels]
             pr == Call("propagate", <<kind, R, sp.fz, sp.br>>)
         IN  [fz |-> pr.fz, br |-> Call("Branch_first", <<R, pr.fz, root(pr.br)>>)]

\* number of levels, counted from the bottom, whose nodes have equal E views
RECURSIVE skip_depth(_, _, _, _, _)
skip_depth(kind, fz, a, b, d) ==
    LET ma == Call("level_meta", <<kind, fz, a, d>>)
        mb == Call("level_meta", <<kind, fz, b, d>>)
    IN  IF IsSome(ma) /\ IsSome(mb)
           /\ SubMetaE(kind, Unwrap(ma)) = SubMetaE(kind, Unwrap(mb))
        THEN skip_depth(kind, fz, a, b, d + 1)
        ELSE d

skip_equal(kind, R, fz, self, other) ==
    LET d0 == Call("skip_depth", <<kind, fz, self, other, 0>>)
        d == Min(Min(d0, depth(self) - 1), depth(other) - 1)
        a1 == IF d0 > 0
              THEN Call("extend", <<R, fz, Call("Branch_step", <<R, fz, trim(self, d)>>).br>>)
              ELSE self
        b1 == IF d0 > 0
              THEN Call("extend", <<R, fz, Call("Branch_step", <<R, fz, trim(other, d)>>).br>>)
              ELSE other
        la == Call("leaf", <<R, fz, a1>>)
        lb == Call("leaf", <<R, fz, b1>>)
    IN  IF IsSome(la) /\ IsSome(lb)
           /\ SubMetaE(kind, from_t(kind, Unwrap(la)))
              = SubMetaE(kind, from_t(kind, Unwrap(lb)))
        THEN [self |-> Call("Branch_step", <<R, fz, a1>>).br, other |-> Call("Branch_step", <<R, fz, b1>>).br]
        ELSE [self |-> a1, other |-> b1]

(* ------------------------------ Collection ------------------------------ *)
\* a Collection is [kind, root, meta, freezer]: kind stands for the type
\* parameters (element and metadata types), freezer is the handle it owns
Handle(fz, h) == [fz EXCEPT !.h = h]

Collection_with_freezer(kind, fz, h) ==
    LET p == put(Handle(fz, h), Node_new)
    IN  [fz |-> p.fz,
         c |-> [kind |-> kind, root |-> p.loc, meta |-> None, freezer |-> h]]

Collection_new(kind, fz) ==
    Collection_with_freezer(kind, [fz EXCEPT !.handles = @ + 1], fz.handles + 1)

Collection_new_from(kind, fz, rt, h) ==
    [kind |-> kind, root |-> rt, meta |-> Call("Node_meta", <<kind, get(fz, rt)>>), freezer |-> h]

Collection_persist(fz, c) == Freezer_freeze(fz, c.root)

\* restore opens a new freezer on the backend
Collection_restore(kind, fz, hash) ==
    LET fz1 == [fz EXCEPT !.handles = @ + 1]
        rt == from_hash(fz1, hash)
    IN  [fz |-> fz1,
         c |-> [kind |-> kind, root |-> rt,
                meta |-> Call("Node_meta", <<kind, get(fz1, rt)>>), freezer |-> fz1.handles]]

new_root(fz, c, loc) ==
    [c EXCEPT !.meta = Call("Node_meta", <<c.kind, get(fz, loc)>>), !.root = loc]

\* variant: the clone keeps the handle of the original
Collection_clone_alias(fz, c) == [fz |-> Handle(fz, c.freezer), c |-> c]

Collection_clone(fz, c) ==
    LET fz1 == Freezer_clone(Handle(fz, c.freezer))
    IN  [fz |-> fz1, c |-> [c EXCEPT !.freezer = fz1.handles]]

\* PartialEq: the CheckSum views of the two top-level metadata values
Collection_eq(a, b) ==
    (IF IsSome(a.meta) THEN Some(SubMetaCheckSum(a.kind, Unwrap(a.meta))) ELSE None)
    = (IF IsSome(b.meta) THEN Some(SubMetaCheckSum(b.kind, Unwrap(b.meta))) ELSE None)

(* ------------------------------ VectorOps -------------------------------- *)
Vector_get(fz, c, i) ==
    LET res == Call("new_full", <<c.kind, "Beginning", fz, c.root, i>>)
    IN  IF res.sel = "Hit" THEN Call("leaf", <<"Beginning", fz, res.br>>) ELSE None

\* insert through a branch, then re-root the collection
InsertVia(R, fz, c, br, t) ==
    LET r == Call("Branch_insert", <<c.kind, R, fz, br, t>>)
    IN  [fz |-> r.fz, c |-> Call("new_root", <<r.fz, c, root(r.br)>>), panic |-> FALSE]

\* an insert that appends when the index lies past the length
Vector_insert_lax(fz0, c, i, t) ==
    LET fz == Handle(fz0, c.freezer)
        res == Call("new_full", <<c.kind, "Beginning", fz, c.root, i>>)
    IN  IF res.sel = "Miss"
        THEN Call("InsertVia", <<"End", fz, c, Call("Branch_first", <<"End", fz, c.root>>), t>>)
        ELSE Call("InsertVia", <<"Beginning", fz, c, res.br, t>>)

Vector_insert(fz0, c, i, t) ==
    LET fz == Handle(fz0, c.freezer)
        res == Call("new_full", <<c.kind, "Beginning", fz, c.root, i>>)
    IN  CASE res.sel = "Between" ->
                 IF i = 0 THEN Call("InsertVia", <<"Beginning", fz, c, res.br, t>>)
                 ELSE [fz |-> fz, c |-> c, panic |-> TRUE]
          [] res.sel = "Hit" -> Call("InsertVia", <<"Beginning", fz, c, res.br, t>>)
          [] res.sel = "Miss" ->
                 IF res.search = 0
                 THEN Call("InsertVia", <<"End", fz, c, Call("Branch_first", <<"End", fz, c.root>>), t>>)
                 ELSE [fz |-> fz, c |-> c, panic |-> TRUE]

\* removal through a branch, then re-root the collection
RemoveVia(R, fz, c, br) ==
    LET r == Call("Branch_remove", <<c.kind, R, fz, br>>)
    IN  [fz |-> r.fz, c |-> Call("new_root", <<r.fz, c, root(r.br)>>), ret |-> r.t]

Vector_remove(fz0, c, i) ==
    LET fz == Handle(fz0, c.freezer)
        res == Call("new_full", <<c.kind, "Beginning", fz, c.root, i>>)
    IN  IF res.sel = "Hit" THEN Call("RemoveVia", <<"Beginning", fz, c, res.br>>)
        ELSE [fz |-> fz, c |-> c, ret |-> None]

Vector_push(fz0, c, t) ==
    LET fz == Handle(fz0, c.freezer)
    IN  Call("InsertVia", <<"End", fz, c, Call("Branch_first", <<"End", fz, c.root>>), t>>)

Vector_pop(fz0, c) ==
    LET fz == Handle(fz0, c.freezer)
    IN  Call("RemoveVia", <<"End", fz, c, Call("Branch_first", <<"End", fz, c.root>>)>>)

\* variant: a split that works on the freezer of the receiver, without the
\* clone that keeps its changes out of the original
Vector_split_unfrozen(fz0, c, i) ==
    LET fz == Handle(fz0, c.freezer)
        res == Call("new_full", <<c.kind, "Beginning", fz, c.root, i>>)
    IN  IF i = 0 \/ res.sel # "Hit"
        THEN LET w == Collection_with_freezer(c.kind, fz, c.freezer)
             IN  [fz |-> w.fz, a |-> IF i = 0 THEN w.c ELSE c,
                  b |-> IF i = 0 THEN c ELSE w.c, panic |-> FALSE]
        ELSE LET l == Call("Branch_left", <<c.kind, "Beginning", fz, res.br>>)
                 r == Call("Branch_right", <<c.kind, "Beginning", l.fz, res.br>>)
             IN  [fz |-> r.fz,
                  a |-> Call("Collection_new_from", <<c.kind, r.fz, root(l.br), c.freezer>>),
                  b |-> Call("Collection_new_from", <<c.kind, r.fz, root(r.br), c.freezer>>),
                  panic |-> FALSE]

\* res = "unreachable" stands for the unreachable!() arm
Vector_split(fz0, c, i) ==
    LET fz == Freezer_clone(Handle(fz0, c.freezer))
        freezer == fz.handles
        res == Call("new_full", <<c.kind, "Beginning", fz, c.root, i>>)
    IN  IF i = 0
        THEN LET w == Collection_with_freezer(c.kind, fz, freezer)
                 cl == Collection_clone(w.fz, c)
             IN  [fz |-> cl.fz, a |-> w.c, b |-> cl.c, panic |-> FALSE]
        ELSE CASE res.sel = "Hit" ->
                      LET l == Call("Branch_left", <<c.kind, "Beginning", Handle(fz, freezer), res.br>>)
                          r == Call("Branch_right", <<c.kind, "Beginning", l.fz, res.br>>)
                          fz2 == Freezer_clone(r.fz)
                      IN  [fz |-> fz2,
                           a |-> Call("Collection_new_from", <<c.kind, fz2, root(l.br), fz2.handles>>),
                           b |-> Call("Collection_new_from", <<c.kind, fz2, root(r.br), freezer>>),
                           panic |-> FALSE]
               [] res.sel = "Miss" ->
                      LET cl == Collection_clone(fz, c)
                          w == Collection_with_freezer(c.kind, cl.fz, freezer)
                      IN  [fz |-> w.fz, a |-> cl.c, b |-> w.c, panic |-> FALSE]
               [] res.sel = "Between" ->
                      [fz |-> fz, a |-> c, b |-> c, panic |-> TRUE]

Vector_concat(fz0, c, b) ==
    LET fz == Freezer_merge(Handle(fz0, c.freezer), b.freezer)
        a_branch == Call("Branch_first", <<"End", fz, c.root>>)
        b_branch == Call("Branch_first", <<"Beginning", fz, b.root>>)
        r == Call("Branch_concat", <<c.kind, "End", fz, a_branch, b_branch>>)
        fz2 == Freezer_clone(r.fz)
    IN  [fz |-> fz2, c |-> Call("Collection_new_from", <<c.kind, fz2, root(r.br), fz2.handles>>)]

\* splice: split at i, then the first part, a clone of from and the second
\* part concatenated
Vector_splice(fz0, c, i, from) ==
    LET sp == Call("Vector_split", <<fz0, c, i>>)
    IN  IF sp.panic THEN [fz |-> fz0, c |-> c, panic |-> TRUE]
        ELSE LET cl == Collection_clone(sp.fz, from)
                 fc == Call("Vector_concat", <<cl.fz, sp.a, cl.c>>)
                 r == Call("Vector_concat", <<fc.fz, fc.c, sp.b>>)
             IN  [fz |-> r.fz, c |-> r.c, panic |-> FALSE]

(* -------------------------------- SetOps --------------------------------- *)
\* a member that takes a search ending between two elements for a hit
Set_member_between(fz, c, t) ==
    Call("new_full", <<c.kind, "Beginning", fz, c.root, t>>).sel \in {"Hit", "Between"}

Set_member(fz, c, t) == Call("new_full", <<c.kind, "Beginning", fz, c.root, t>>).sel = "Hit"

Set_insert(fz0, c, t) ==
    LET fz == Handle(fz0, c.freezer)
        res == Call("new_full", <<c.kind, "Beginning", fz, c.root, t>>)
    IN  CASE res.sel = "Between" -> Call("InsertVia", <<"Beginning", fz, c, res.br, t>>)
          [] res.sel = "Hit" -> [fz |-> fz, c |-> c, panic |-> FALSE]
          [] res.sel = "Miss" ->
                 Call("InsertVia", <<"End", fz, c, Call("Branch_first", <<"End", fz, c.root>>), t>>)

Set_remove(fz0, c, t) ==
    LET fz == Handle(fz0, c.freezer)
        res == Call("new_full", <<c.kind, "Beginning", fz, c.root, t>>)
    IN  IF res.sel = "Hit" THEN Call("RemoveVia", <<"Beginning", fz, c, res.br>>)
        ELSE [fz |-> fz, c |-> c, ret |-> None]

(* -------------------------------- MapOps --------------------------------- *)
\* an insert that adds a pair beside the one a present key has
Map_insert_beside(fz0, c, key, val) ==
    LET fz == Handle(fz0, c.freezer)
        res == Call("new_full", <<c.kind, "Beginning", fz, c.root, key>>)
    IN  IF res.sel = "Miss"
        THEN Call("InsertVia", <<"End", fz, c, Call("Branch_first", <<"End", fz, c.root>>), KV(key, val)>>)
        ELSE Call("InsertVia", <<"Beginning", fz, c, res.br, KV(key, val)>>)

Map_insert(fz0, c, key, val) ==
    LET fz == Handle(fz0, c.freezer)
        res == Call("new_full", <<c.kind, "Beginning", fz, c.root, key>>)
    IN  CASE res.sel = "Between" ->
                 Call("InsertVia", <<"Beginning", fz, c, res.br, KV(key, val)>>)
          [] res.sel = "Hit" ->
                 LET u == Call("Branch_update", <<c.kind, "Beginning", fz, res.br, KV(key, val)>>)
                 IN  [fz |-> u.fz, c |-> Call("new_root", <<u.fz, c, root(u.br)>>), panic |-> FALSE]
          [] res.sel = "Miss" ->
                 Call("InsertVia", <<"End", fz, c, Call("Branch_first", <<"End", fz, c.root>>), KV(key, val)>>)

Map_remove(fz0, c, key) ==
    LET fz == Handle(fz0, c.freezer)
        res == Call("new_full", <<c.kind, "Beginning", fz, c.root, key>>)
    IN  IF res.sel = "Hit"
        THEN LET r == Call("RemoveVia", <<"Beginning", fz, c, res.br>>)
             IN  [r EXCEPT !.ret = IF IsSome(@) THEN Some(Unwrap(@).v) ELSE None]
        ELSE [fz |-> fz, c |-> c, ret |-> None]

Map_get(fz, c, key) ==
    LET res == Call("new_full", <<c.kind, "Beginning", fz, c.root, key>>)
        l == Call("leaf", <<"Beginning", fz, res.br>>)
    IN  IF res.sel = "Hit" /\ IsSome(l) THEN Some(Unwrap(l).v) ELSE None

\* the closure passed to mutate is taken to store val into the value
\* a mutate that writes the value at the leaf and leaves the metadata above it
Map_mutate_stale(fz0, c, key, val) ==
    LET fz == Handle(fz0, c.freezer)
        res == Call("new_full", <<c.kind, "Beginning", fz, c.root, key>>)
    IN  IF res.sel = "Hit"
        THEN LET lv == bottom(res.br)
                 g == get_mut(fz, lv.location)
             IN  [fz |-> write(g.fz, g.loc,
                               Node_update(get(g.fz, g.loc), lv.ofs, new_leaf(KV(key, val)))),
                  c |-> c, ret |-> Some(TRUE)]
        ELSE [fz |-> fz, c |-> c, ret |-> None]

Map_mutate(fz0, c, key, val) ==
    LET fz == Handle(fz0, c.freezer)
        res == Call("new_full", <<c.kind, "Beginning", fz, c.root, key>>)
    IN  IF res.sel = "Hit"
        THEN LET u == Call("Branch_update", <<c.kind, "Beginning", fz, res.br, KV(key, val)>>)
             IN  [fz |-> u.fz, c |-> Call("new_root", <<u.fz, c, root(u.br)>>), ret |-> Some(TRUE)]
        ELSE [fz |-> fz, c |-> c, ret |-> None]

(* ------------------------------ union_using ------------------------------ *)
\* the F view of a leaf: the element for Sets, the key for Maps
LeafKey(kind, t) == SubMetaF(kind, from_t(kind, t))

\* moves the part of from that lies before key onto the end of into
a_b(kind, fz, from, into, key) ==
    LET f == Call("find_full", <<kind, "Beginning", fz, from, key>>)
        l == Call("Branch_left", <<kind, "Beginning", fz, f.br>>)
        r == Call("Branch_right", <<kind, "Beginning", l.fz, f.br>>)
    IN  IF IsSome(into)
        THEN LET c == Call("Branch_concat", <<kind, "End", r.fz, Unwrap(into),
                                    Call("Branch_reverse", <<"Beginning", r.fz, l.br>>)>>)
             IN  [fz |-> c.fz, from |-> r.br, into |-> Some(c.br)]
        ELSE [fz |-> r.fz, from |-> r.br, into |-> Some(l.br)]

\* variant: the rest of the other side is left out
concat_full_drop(kind, fz, c, rest) == [fz |-> fz, c |-> c]

\* one exhausted side: the rest of the other side goes onto the end of c
concat_full(kind, fz, c, rest) ==
    IF IsSome(c)
    THEN LET r == Call("Branch_concat", <<kind, "End", fz, Unwrap(c), rest>>)
         IN  [fz |-> r.fz, c |-> Some(r.br)]
    ELSE [fz |-> fz, c |-> Some(Call("Branch_reverse", <<"End", fz, rest>>))]

RECURSIVE union_loop(_, _, _, _, _)
union_loop(kind, fz, branch_a, branch_b, branch_c) ==
    LET la == Call("leaf", <<"Beginning", fz, branch_a>>)
        lb == Call("leaf", <<"Beginning", fz, branch_b>>)
    IN  CASE IsSome(la) /\ IsSome(lb) ->
                 LET a == LeafKey(kind, Unwrap(la))
                     b == LeafKey(kind, Unwrap(lb))
                 IN  IF a = b
                     THEN LET sk == Call("skip_equal", <<kind, "Beginning", fz, branch_a, branch_b>>)
                              m == Call("a_b", <<kind, fz, sk.other, branch_c, a>>)
                              r == Call("Branch_right", <<kind, "Beginning", m.fz, sk.self>>)
                          IN  union_loop(kind, r.fz, r.br, m.from, m.into)
                     ELSE IF a > b
                     THEN LET m == Call("a_b", <<kind, fz, branch_b, branch_c, a>>)
                          IN  union_loop(kind, m.fz, branch_a, m.from, m.into)
                     ELSE LET m == Call("a_b", <<kind, fz, branch_a, branch_c, b>>)
                          IN  union_loop(kind, m.fz, m.from, branch_b, m.into)
          [] ~IsSome(la) /\ IsSome(lb) -> Call("concat_full", <<kind, fz, branch_c, branch_b>>)
          [] IsSome(la) /\ ~IsSome(lb) -> Call("concat_full", <<kind, fz, branch_c, branch_a>>)
          [] OTHER -> [fz |-> fz, c |-> branch_c]

union_using(fz0, c, b) ==
    LET cl == Collection_clone(fz0, c)
        fz == Freezer_merge(Handle(cl.fz, c.freezer), b.freezer)
        u == Call("union_loop", <<c.kind, fz,
                        Call("Branch_first", <<"Beginning", fz, cl.c.root>>),
                        Call("Branch_first", <<"Beginning", fz, b.root>>), None>>)
    IN  IF IsSome(u.c)
        THEN LET fz2 == Freezer_clone(u.fz)
             IN  [fz |-> fz2,
                  c |-> Call("Collection_new_from", <<c.kind, fz2, root(Unwrap(u.c)), fz2.handles>>)]
        ELSE LET p == put(u.fz, Node_new)
                 fz2 == Freezer_clone(p.fz)
             IN  [fz |-> fz2,
                  c |-> [kind |-> c.kind, root |-> p.loc, meta |-> None,
                         freezer |-> fz2.handles]]

Set_union(fz, c, b) == Call("union_using", <<fz, c, b>>)

\* variant: the operands of the merge change places
Map_merge_flipped(fz, c, b) == Call("union_using", <<fz, b, c>>)

Map_merge(fz, c, b) == Call("union_using", <<fz, c, b>>)

(* ------------------------------- Iterator -------------------------------- *)
\* an iterator is [s, R, state, branch]: s is the slot of the collection it
\* borrows, state is "Initial", "Branch" or "Placeholder"
Iter_new(s, R) == [s |-> s, R |-> R, state |-> "Initial", branch |-> <<>>]

\* item is the value returned by next(); panic stands for unreachable!()
Iter_next(fz, rt, it) ==
    CASE it.state = "Initial" ->
             LET br == Call("Branch_first", <<it.R, fz, rt>>)
             IN  [it |-> [it EXCEPT !.state = "Branch", !.branch = br],
                  item |-> Call("leaf", <<it.R, fz, br>>), panic |-> FALSE]
      [] it.state = "Branch" ->
             LET st == Call("Branch_step", <<it.R, fz, it.branch>>)
             IN  IF st.ok
                 THEN [it |-> [it EXCEPT !.branch = st.br],
                       item |-> Call("leaf", <<it.R, fz, st.br>>), panic |-> FALSE]
                 ELSE [it |-> [it EXCEPT !.state = "Placeholder", !.branch = <<>>],
                       item |-> None, panic |-> FALSE]
      [] it.state = "Placeholder" ->
             [it |-> it, item |-> None, panic |-> TRUE]

\* the items of a fresh iterator up to its first None; fuel bounds the calls
RECURSIVE Iter_collect(_, _, _, _)
Iter_collect(fz, rt, it, fuel) ==
    LET n == Call("Iter_next", <<fz, rt, it>>)
    IN  IF fuel = 0 \/ n.panic \/ ~IsSome(n.item) THEN <<>>
        ELSE <<Unwrap(n.item)>> \o Iter_collect(fz, rt, n.it, fuel - 1)

(* ------------------------------ dispatch --------------------------------- *)
Call(f, a) ==
    CASE f = "Level_remove" -> Level_remove(a[1], a[2])
      [] f = "Level_update_child" -> Level_update_child(a[1], a[2], a[3], a[4], a[5])
      [] f = "Level_left" -> Level_left(a[1], a[2], a[3])
      [] f = "Level_right" -> Level_right(a[1], a[2], a[3])
      [] f = "Level_insert" -> Level_insert(a[1], a[2], a[3], a[4])
      [] f = "Level_insert_loc" -> Level_insert_loc(a[1], a[2], a[3], a[4], a[5])
      [] f = "Level_insert_after" -> Level_insert_after(a[1], a[2], a[3], a[4])
      [] f = "Level_insert_t" -> Level_insert_t(a[1], a[2], a[3], a[4], a[5])
      [] f = "Level_remove_next" -> Level_remove_next(a[1], a[2])
      [] f = "Level_remove_t" -> Level_remove_t(a[1], a[2], a[3])
      [] f = "Level_split" -> Level_split(a[1], a[2], a[3], a[4])
      [] f = "Level_merge" -> Level_merge(a[1], a[2], a[3])
      [] f = "Level_find" -> Level_find(a[1], a[2], a[3], a[4], a[5])
      [] f = "Level_concat" -> Level_concat(a[1], a[2], a[3], a[4])
      [] f = "extend" -> extend(a[1], a[2], a[3])
      [] f = "Branch_first" -> Branch_first(a[1], a[2], a[3])
      [] f = "level_meta" -> level_meta(a[1], a[2], a[3], a[4])
      [] f = "leaf" -> leaf(a[1], a[2], a[3])
      [] f = "find_full" -> find_full(a[1], a[2], a[3], a[4], a[5])
      [] f = "new_full" -> new_full(a[1], a[2], a[3], a[4], a[5])
      [] f = "find_first_root" -> find_first_root(a[1], a[2])
      [] f = "propagate_loop" -> propagate_loop(a[1], a[2], a[3], a[4], a[5])
      [] f = "propagate" -> propagate(a[1], a[2], a[3], a[4])
      [] f = "propagate_insert_loop" -> propagate_insert_loop(a[1], a[2], a[3], a[4], a[5])
      [] f = "propagate_insert" -> propagate_insert(a[1], a[2], a[3], a[4])
      [] f = "ensure_depth" -> ensure_depth(a[1], a[2], a[3], a[4])
      [] f = "split_loop" -> split_loop(a[1], a[2], a[3], a[4], a[5], a[6])
      [] f = "split" -> split(a[1], a[2], a[3], a[4], a[5])
      [] f = "Branch_insert" -> Branch_insert(a[1], a[2], a[3], a[4], a[5])
      [] f = "Branch_update" -> Branch_update(a[1], a[2], a[3], a[4], a[5])
      [] f = "merge_loop" -> merge_loop(a[1], a[2], a[3], a[4], a[5])
      [] f = "Branch_merge" -> Branch_merge(a[1], a[2], a[3])
      [] f = "Branch_remove" -> Branch_remove(a[1], a[2], a[3], a[4])
      [] f = "step_loop" -> step_loop(a[1], a[2], a[3], a[4])
      [] f = "Branch_step" -> Branch_step(a[1], a[2], a[3])
      [] f = "left_loop" -> left_loop(a[1], a[2], a[3], a[4], a[5])
      [] f = "Branch_left" -> Branch_left(a[1], a[2], a[3], a[4])
      [] f = "right_loop" -> right_loop(a[1], a[2], a[3], a[4], a[5])
      [] f = "Branch_right" -> Branch_right(a[1], a[2], a[3], a[4])
      [] f = "Branch_reverse" -> Branch_reverse(a[1], a[2], a[3])
      [] f = "concat_loop" -> concat_loop(a[1], a[2], a[3], a[4], a[5], a[6])
      [] f = "Branch_concat" -> Branch_concat(a[1], a[2], a[3], a[4], a[5])
      [] f = "skip_depth" -> skip_depth(a[1], a[2], a[3], a[4], a[5])
      [] f = "skip_equal" -> skip_equal(a[1], a[2], a[3], a[4], a[5])
      [] f = "Collection_new_from" -> Collection_new_from(a[1], a[2], a[3], a[4])
      [] f = "new_root" -> new_root(a[1], a[2], a[3])
      [] f = "Vector_get" -> Vector_get(a[1], a[2], a[3])
      [] f = "InsertVia" -> InsertVia(a[1], a[2], a[3], a[4], a[5])
      [] f = "Vector_insert" -> Vector_insert(a[1], a[2], a[3], a[4])
      [] f = "RemoveVia" -> RemoveVia(a[1], a[2], a[3], a[4])
      [] f = "Vector_remove" -> Vector_remove(a[1], a[2], a[3])
      [] f = "Vector_pop" -> Vector_pop(a[1], a[2])
      [] f = "Vector_push" -> Vector_push(a[1], a[2], a[3])
      [] f = "Vector_split" -> Vector_split(a[1], a[2], a[3])
      [] f = "Vector_concat" -> Vector_concat(a[1], a[2], a[3])
      [] f = "Vector_splice" -> Vector_splice(a[1], a[2], a[3], a[4])
      [] f = "Set_member" -> Set_member(a[1], a[2], a[3])
      [] f = "Set_insert" -> Set_insert(a[1], a[2], a[3])
      [] f = "Set_remove" -> Set_remove(a[1], a[2], a[3])
      [] f = "Map_insert" -> Map_insert(a[1], a[2], a[3], a[4])
      [] f = "Map_remove" -> Map_remove(a[1], a[2], a[3])
      [] f = "Map_get" -> Map_get(a[1], a[2], a[3])
      [] f = "Map_mutate" -> Map_mutate(a[1], a[2], a[3], a[4])
      [] f = "a_b" -> a_b(a[1], a[2], a[3], a[4], a[5])
      [] f = "concat_full" -> concat_full(a[1], a[2], a[3], a[4])
      [] f = "union_loop" -> union_loop(a[1], a[2], a[3], a[4], a[5])
      [] f = "union_using" -> union_using(a[1], a[2], a[3])
      [] f = "Set_union" -> Set_union(a[1], a[2], a[3])
      [] f = "Map_merge" -> Map_merge(a[1], a[2], a[3])
      [] f = "Iter_next" -> Iter_next(a[1], a[2], a[3])
      [] f = "Iter_collect" -> Iter_collect(a[1], a[2], a[3], a[4])
      [] f = "Node_meta" -> Node_meta(a[1], a[2])
      [] f = "Node_weight" -> Node_weight(a[1], a[2])
      [] f = "steppable_depth" -> steppable_depth(a[1], a[2])

(* ------------------------------- the state ------------------------------- *)
VARIABLES
    nodes,      \* the node arena: nodes[l] is the node at location l
    owner,      \* owner[l]: the freezer handle whose hot tier holds nodes[l], or 0
    handles,    \* number of freezer handles handed out
    backend,    \* the cold tier: the blobs written so far, each under its digest
    colls,      \* the live collections, by slot
    abs,        \* per slot, the element sequence the operations so far call for
    prov,       \* per slot, how the collection came about
    iter,       \* the open iterator, if any
    out,        \* the items the open iterator has returned
    ret,        \* what the last query returned
    panicked    \* the program has panicked

vars == <<nodes, owner, handles, backend, colls, abs, prov, iter, out, ret, panicked>>

Store == [nodes |-> nodes, owner |-> owner, handles |-> handles, backend |-> backend, h |-> 0]

EmptyStore == [nodes |-> <<>>, owner |-> <<>>, handles |-> 0, backend |-> <<>>, h |-> 0]

Commit(fz) ==
    /\ nodes' = fz.nodes
    /\ owner' = fz.owner
    /\ handles' = fz.handles
    /\ backend' = fz.backend

Slots == 1..Len(colls)

Elems == 1..NElem

Idle == ~panicked /\ iter = None

\* n collections of one kind, each made by Collection::new
RECURSIVE NewCollections(_, _)
NewCollections(kind, n) ==
    IF n = 0 THEN [fz |-> EmptyStore, cs |-> <<>>]
    ELSE LET p == NewCollections(kind, n - 1)
             r == Collection_new(kind, p.fz)
         IN  [fz |-> r.fz, cs |-> Append(p.cs, r.c)]

InitWith(kind, n) ==
    LET r == NewCollections(kind, n)
    IN  /\ nodes = r.fz.nodes
        /\ owner = r.fz.owner
        /\ handles = r.fz.handles
        /\ backend = r.fz.backend
        /\ colls = r.cs
        /\ abs = [s \in 1..n |-> <<>>]
        /\ prov = [s \in 1..n |-> [op |-> "new"]]
        /\ iter = None
        /\ out = <<>>
        /\ ret = None
        /\ panicked = FALSE

(* ---------------------- what the operations call for --------------------- *)
AbsKey(kind, t) == IF kind = "map" THEN t.k ELSE t

\* position of the first element whose key is >= key, 0-based
RECURSIVE AbsRank(_, _, _)
AbsRank(kind, seq, key) ==
    IF seq = <<>> \/ AbsKey(kind, Head(seq)) >= key THEN 0
    ELSE 1 + AbsRank(kind, Tail(seq), key)

AbsHas(kind, seq, key) == \E i \in 1..Len(seq) : AbsKey(kind, seq[i]) = key

\* ordered insert; an element with the same key is replaced
AbsPut(kind, seq, t) ==
    LET r == AbsRank(kind, seq, AbsKey(kind, t))
    IN  IF AbsHas(kind, seq, AbsKey(kind, t)) THEN SetAt(seq, r, t)
        ELSE InsertAt(seq, r, t)

AbsDel(kind, seq, key) ==
    IF AbsHas(kind, seq, key) THEN RemoveAt(seq, AbsRank(kind, seq, key)) ELSE seq

RECURSIVE AbsUnion(_, _, _)
AbsUnion(kind, a, b) ==
    IF b = <<>> THEN a ELSE AbsUnion(kind, AbsPut(kind, a, Head(b)), Tail(b))

\* whether a collection built by inserts alone received its keys in ascending order
Ascending(p) == IF p.op = "insert" THEN p.asc ELSE TRUE

\* provenance of a slot after a mutating operation op
ProvAfter(p, op) ==
    IF p.op \in {"new", op} THEN [op |-> op] ELSE [op |-> "mixed"]

(* -------------------------------- actions -------------------------------- *)
\* the outcome of a mutating operation r on slot s
MutatedAs(s, r, seq, p) ==
    /\ Commit(r.fz)
    /\ colls' = [colls EXCEPT ![s] = r.c]
    /\ abs' = [abs EXCEPT ![s] = seq]
    /\ prov' = [prov EXCEPT ![s] = p]
    /\ ret' = None
    /\ UNCHANGED <<iter, out, panicked>>

Mutated(s, r, seq, op) == MutatedAs(s, r, seq, ProvAfter(prov[s], op))

\* the outcome of an operation that makes new collections cs out of slots
Made(fz, cs, seqs, provs) ==
    /\ Commit(fz)
    /\ colls' = colls \o cs
    /\ abs' = abs \o seqs
    /\ prov' = prov \o provs
    /\ ret' = None
    /\ UNCHANGED <<iter, out, panicked>>

\* the last outcome, when it is the outcome of the operation op
Last(op) == {g \in {Unwrap(x) : x \in {y \in {ret} : IsSome(y)}} : g.op = op}

Panicked ==
    /\ panicked' = TRUE
    /\ ret' = None
    /\ UNCHANGED <<nodes, owner, handles, backend, colls, abs, prov, iter, out>>

Returned(r) ==
    /\ ret' = Some(r)
    /\ UNCHANGED <<nodes, owner, handles, backend, colls, abs, prov, iter, out, panicked>>

VectorPush(s, t) ==
    /\ Idle
    /\ s \in Slots
    /\ colls[s].kind = "vector"
    /\ Len(abs[s]) < MaxLen
    /\ Mutated(s, Call("Vector_push", <<Store, colls[s], t>>), Append(abs[s], t), "push")

VectorInsert(s, i, t) ==
    /\ Idle
    /\ s \in Slots
    /\ colls[s].kind = "vector"
    /\ Len(abs[s]) < MaxLen
    /\ ret' = Some([op |-> "insert", s |-> s, i |-> i, t |-> t])
    /\ LET r == Call("Vector_insert", <<Store, colls[s], i, t>>)
       IN  IF r.panic
           THEN /\ panicked' = TRUE
                /\ UNCHANGED <<nodes, owner, handles, backend, colls, abs, prov, iter, out>>
           ELSE /\ Commit(r.fz)
                /\ colls' = [colls EXCEPT ![s] = r.c]
                /\ abs' = [abs EXCEPT ![s] = IF i <= Len(@) THEN InsertAt(@, i, t) ELSE @]
                /\ prov' = [prov EXCEPT ![s] = ProvAfter(@, IF i = 0 THEN "head" ELSE "insert")]
                /\ UNCHANGED <<iter, out, panicked>>

VectorGet(s, i) ==
    /\ Idle
    /\ s \in Slots
    /\ colls[s].kind = "vector"
    /\ Returned([op |-> "get", s |-> s, i |-> i,
                 val |-> Call("Vector_get", <<Store, colls[s], i>>)])

VectorSplit(s, i) ==
    /\ Idle
    /\ s \in Slots
    /\ colls[s].kind = "vector"
    /\ Len(colls) + 2 <= MaxColl
    /\ LET r == Call("Vector_split", <<Store, colls[s], i>>)
           at == Min(i, Len(abs[s]))
       IN  IF r.panic THEN Panicked
           ELSE Made(r.fz, <<r.a, r.b>>,
                     <<Take(abs[s], at), Drop(abs[s], at)>>,
                     <<[op |-> "split_left", of |-> s, i |-> i],
                       [op |-> "split_right", of |-> s, i |-> i]>>)

VectorConcat(a, b) ==
    /\ Idle
    /\ a \in Slots /\ b \in Slots /\ a # b
    /\ colls[a].kind = "vector" /\ colls[b].kind = "vector"
    /\ Len(colls) < MaxColl
    /\ LET r == Call("Vector_concat", <<Store, colls[a], colls[b]>>)
       IN  Made(r.fz, <<r.c>>, <<abs[a] \o abs[b]>>,
                <<[op |-> "concat", a |-> a, b |-> b]>>)

VectorSplice(s, i, from) ==
    /\ Idle
    /\ s \in Slots /\ from \in Slots
    /\ colls[s].kind = "vector" /\ colls[from].kind = "vector"
    /\ Len(colls) < MaxColl
    /\ LET r == Call("Vector_splice", <<Store, colls[s], i, colls[from]>>)
           at == Min(i, Len(abs[s]))
       IN  IF r.panic THEN Panicked
           ELSE Made(r.fz, <<r.c>>, <<Take(abs[s], at) \o abs[from] \o Drop(abs[s], at)>>,
                     <<[op |-> "splice", of |-> s, i |-> i, from |-> from]>>)

Cur == Len(colls)

Building == Len(colls) = 1

\* the first Vector is built by pushes alone or by inserts at the head alone
BuiltBy(op) == Building /\ prov[1].op \in {"new", op}

NextVector ==
    \/ \E t \in Elems : BuiltBy("push") /\ VectorPush(1, t)
    \/ \E t \in Elems : BuiltBy("head") /\ VectorInsert(1, 0, t)
    \/ \E i \in 0..(MaxLen + 1) : Building /\ VectorGet(1, i)
    \/ \E i \in 0..(MaxLen + 1) : VectorSplit(Cur, i)
    \/ VectorConcat(Cur - 1, Cur)

Spec == InitWith("vector", 1) /\ [][NextVector]_vars

(* --------------------------------- Sets ---------------------------------- *)
SetInsert(s, t) ==
    /\ Idle
    /\ s \in Slots
    /\ colls[s].kind = "set"
    /\ Len(AbsPut("set", abs[s], t)) <= MaxLen
    /\ MutatedAs(s, Call("Set_insert", <<Store, colls[s], t>>), AbsPut("set", abs[s], t),
                 IF prov[s].op \in {"new", "insert"}
                 THEN [op |-> "insert",
                       asc |-> /\ Ascending(prov[s])
                               /\ \A i \in 1..Len(abs[s]) : abs[s][i] <= t]
                 ELSE [op |-> "mixed"])

\* union leaves both operands in place and makes a new collection
SetUnion(a, b) ==
    /\ Idle
    /\ a \in Slots /\ b \in Slots /\ a # b
    /\ colls[a].kind = "set" /\ colls[b].kind = "set"
    /\ Len(colls) < MaxColl
    /\ \A u \in Slots : prov[u] # [op |-> "union", a |-> a, b |-> b]
    /\ LET r == Call("Set_union", <<Store, colls[a], colls[b]>>)
       IN  Made(r.fz, <<r.c>>, <<AbsUnion("set", abs[a], abs[b])>>,
                <<[op |-> "union", a |-> a, b |-> b]>>)

IterNew(s, R) ==
    /\ Idle
    /\ s \in Slots
    /\ iter' = Some(Iter_new(s, R))
    /\ out' = <<>>
    /\ ret' = None
    /\ UNCHANGED <<nodes, owner, handles, backend, colls, abs, prov, panicked>>

\* next() is called until it has returned None once
IterNext ==
    /\ ~panicked
    /\ IsSome(iter)
    /\ \A i \in 1..Len(out) : IsSome(out[i])
    /\ LET it == Unwrap(iter)
           n == Call("Iter_next", <<Store, colls[it.s].root, it>>)
       IN  /\ iter' = Some(n.it)
           /\ out' = Append(out, n.item)
           /\ panicked' = n.panic
    /\ UNCHANGED <<nodes, owner, handles, backend, colls, abs, prov, ret>>

\* the iterator goes out of scope
IterDrop ==
    /\ ~panicked
    /\ IsSome(iter)
    /\ iter' = None
    /\ out' = <<>>
    /\ UNCHANGED <<nodes, owner, handles, backend, colls, abs, prov, ret, panicked>>

\* the two Sets are filled one after the other, then united
NextSet ==
    \/ \E t \in Elems : Len(colls) = 2 /\ prov[2].op = "new" /\ SetInsert(1, t)
    \/ \E t \in Elems : Len(colls) = 2 /\ SetInsert(2, t)
    \/ Len(colls) = 2 /\ SetUnion(1, 2)
    \/ Len(colls) = 3 /\ SetUnion(2, 1)
    \/ prov[2].op = "new" /\ IterNew(1, "Beginning")
    \/ IterNext
    \/ IterDrop

SpecSet == InitWith("set", 2) /\ [][NextSet]_vars

(* --------------------------------- Maps ---------------------------------- *)
\* insert adds the pair or overwrites the value stored under the key
MapInsert(s, k, v) ==
    /\ Idle
    /\ s \in Slots
    /\ colls[s].kind = "map"
    /\ Len(AbsPut("map", abs[s], KV(k, v))) <= MaxLen
    /\ LET r == Call("Map_insert", <<Store, colls[s], k, v>>)
       IN  IF r.panic THEN Panicked
           ELSE Mutated(s, r, AbsPut("map", abs[s], KV(k, v)), "insert")

MapGet(s, k) ==
    /\ Idle
    /\ s \in Slots
    /\ colls[s].kind = "map"
    /\ Returned([op |-> "get", s |-> s, k |-> k,
                 val |-> Call("Map_get", <<Store, colls[s], k>>)])

\* merge leaves both operands in place and makes a new collection
MapMerge(a, b) ==
    /\ Idle
    /\ a \in Slots /\ b \in Slots /\ a # b
    /\ colls[a].kind = "map" /\ colls[b].kind = "map"
    /\ Len(colls) < MaxColl
    /\ LET r == Call("Map_merge", <<Store, colls[a], colls[b]>>)
       IN  Made(r.fz, <<r.c>>, <<AbsUnion("map", abs[a], abs[b])>>,
                <<[op |-> "union", a |-> a, b |-> b]>>)

\* the first Map stores 1 under every key and the second 2; they are filled
\* one after the other, merged, and the merged Map is read
NextMap ==
    \/ \E k \in Elems : Len(colls) = 2 /\ prov[2].op = "new" /\ MapInsert(1, k, 1)
    \/ \E k \in Elems : Len(colls) = 2 /\ MapInsert(2, k, 2)
    \/ Len(colls) = 2 /\ MapMerge(1, 2)
    \/ \E k \in Elems : Len(colls) = 3 /\ MapGet(3, k)

SpecMap == InitWith("map", 2) /\ [][NextMap]_vars

(* -------------------------------- Clones --------------------------------- *)
Clone(s) ==
    /\ Idle
    /\ s \in Slots
    /\ Len(colls) < MaxColl
    /\ LET r == Collection_clone(Store, colls[s])
       IN  Made(r.fz, <<r.c>>, <<abs[s]>>, <<[op |-> "clone", of |-> s]>>)

\* provenance after a removal: "pruned" is a collection filled by pushes or
\* inserts alone and then only taken from
ProvRemoved(p) ==
    IF p.op \in {"push", "insert", "pruned"} THEN [op |-> "pruned"]
    ELSE ProvAfter(p, "remove")

\* a removal returns the element it took out, if any; key is the index or
\* the key that was asked for and was the sequence before the call
Removed(s, key, r, seq) ==
    /\ Commit(r.fz)
    /\ colls' = [colls EXCEPT ![s] = r.c]
    /\ abs' = [abs EXCEPT ![s] = seq]
    /\ prov' = [prov EXCEPT ![s] = ProvRemoved(@)]
    /\ ret' = Some([op |-> "remove", s |-> s, key |-> key, val |-> r.ret, was |-> abs[s]])
    /\ UNCHANGED <<iter, out, panicked>>

VectorRemove(s, i) ==
    /\ Idle
    /\ s \in Slots
    /\ colls[s].kind = "vector"
    /\ Removed(s, i, Call("Vector_remove", <<Store, colls[s], i>>),
               IF i < Len(abs[s]) THEN RemoveAt(abs[s], i) ELSE abs[s])

\* pop is to take the last element out and return it
VectorPop(s) ==
    /\ Idle
    /\ s \in Slots
    /\ colls[s].kind = "vector"
    /\ LET r == Call("Vector_pop", <<Store, colls[s]>>)
       IN  /\ Commit(r.fz)
           /\ colls' = [colls EXCEPT ![s] = r.c]
           /\ abs' = [abs EXCEPT ![s] = Take(@, SatSub(Len(@), 1))]
           /\ prov' = [prov EXCEPT ![s] = ProvAfter(@, "pop")]
           /\ ret' = Some([op |-> "pop", s |-> s, val |-> r.ret, was |-> abs[s]])
           /\ UNCHANGED <<iter, out, panicked>>

SetRemove(s, t) ==
    /\ Idle
    /\ s \in Slots
    /\ colls[s].kind = "set"
    /\ Removed(s, t, Call("Set_remove", <<Store, colls[s], t>>), AbsDel("set", abs[s], t))

SetMember(s, t) ==
    /\ Idle
    /\ s \in Slots
    /\ colls[s].kind = "set"
    /\ Returned([op |-> "member", s |-> s, t |-> t,
                 val |-> Call("Set_member", <<Store, colls[s], t>>)])

MapRemove(s, k) ==
    /\ Idle
    /\ s \in Slots
    /\ colls[s].kind = "map"
    /\ Removed(s, k, Call("Map_remove", <<Store, colls[s], k>>), AbsDel("map", abs[s], k))

\* mutate stores v under a key that is present and does nothing otherwise
MapMutate(s, k, v) ==
    /\ Idle
    /\ s \in Slots
    /\ colls[s].kind = "map"
    /\ LET r == Call("Map_mutate", <<Store, colls[s], k, v>>)
       IN  /\ Commit(r.fz)
           /\ colls' = [colls EXCEPT ![s] = r.c]
           /\ abs' = [abs EXCEPT ![s] = IF AbsHas("map", @, k) THEN AbsPut("map", @, KV(k, v)) ELSE @]
           /\ prov' = [prov EXCEPT ![s] = ProvAfter(@, "mutate")]
           /\ ret' = Some([op |-> "mutate", s |-> s, k |-> k, val |-> r.ret, was |-> abs[s]])
           /\ UNCHANGED <<iter, out, panicked>>

Kinds == {"vector", "set", "map"}

\* the original takes one kind of mutation from its construction on; one of
\* the clones takes one mutation
Takes(s, op) ==
    /\ s \in Slots
    /\ IF s = 1 THEN prov[1].op \in {"new", op}
       ELSE \A u \in Slots \ {1} : prov[u].op = "clone"

\* the original receives its keys in ascending order, a clone receives any
Receives(s, k) == s = 1 => \A i \in 1..Len(abs[s]) : AbsKey(colls[s].kind, abs[s][i]) < k

\* the newest collection is cloned, which makes a chain of clones of clones
NextClone ==
    \/ Len(colls) < MaxColl - 1 /\ Clone(Cur)
    \/ \E s \in Slots, t \in Elems : Takes(s, "push") /\ Receives(s, t) /\ VectorPush(s, t)
    \/ \E s \in Slots, i \in 0..MaxLen, t \in Elems :
           /\ Takes(s, IF i = 0 THEN "head" ELSE "insert") /\ Receives(s, t)
           /\ i <= Len(abs[s])
           /\ VectorInsert(s, i, t)
    \/ \E s \in Slots, i \in 0..MaxLen : Takes(s, "remove") /\ VectorRemove(s, i)
    \/ \E s \in Slots, t \in Elems : Takes(s, "insert") /\ Receives(s, t) /\ SetInsert(s, t)
    \/ \E s \in Slots, t \in Elems : Takes(s, "remove") /\ SetRemove(s, t)
    \/ \E s \in Slots, k \in Elems : Takes(s, "insert") /\ Receives(s, k) /\ MapInsert(s, k, s)
    \/ \E s \in Slots, k \in Elems : Takes(s, "remove") /\ MapRemove(s, k)
    \/ \E s \in Slots, k \in Elems : Takes(s, "mutate") /\ MapMutate(s, k, s)

SpecClone == (\E kind \in Kinds : InitWith(kind, 1)) /\ [][NextClone]_vars

(* ------------------------------- Removal --------------------------------- *)
\* a Vector or a Set is filled, with distinct elements in any order, then
\* taken from, and a Set is then filled again
Filling == prov[1].op \in {"new", "push", "insert"}

NextRemove ==
    \/ \E t \in Elems : Filling /\ ~AbsHas("vector", abs[1], t) /\ VectorPush(1, t)
    \/ \E i \in 0..MaxLen : prov[1].op # "mixed" /\ VectorRemove(1, i)
    \/ Filling /\ VectorPop(1)
    \/ \E t \in Elems : SetInsert(1, t)
    \/ \E t \in Elems : prov[1].op # "mixed" /\ SetRemove(1, t)
    \/ \E t \in Elems : prov[1].op \in {"pruned", "mixed"} /\ SetMember(1, t)

SpecRemove == (\E kind \in {"vector", "set"} : InitWith(kind, 1)) /\ [][NextRemove]_vars

(* ------------------------------ Map editing ------------------------------ *)
\* one Map is filled, then taken from, then given one mutate; a get ends the
\* filling and the taking; an insert stores 1 under a new key and 2 under a key
\* that is present, a mutate stores 3
Unread == Last("get") = {}

NextEdit ==
    \/ \E k \in Elems :
           /\ Unread
           /\ prov[1].op \in {"new", "insert"}
           /\ MapInsert(1, k, IF AbsHas("map", abs[1], k) THEN 2 ELSE 1)
    \/ \E k \in Elems : Unread /\ prov[1].op \in {"insert", "pruned"} /\ MapRemove(1, k)
    \/ \E k \in Elems : Unread /\ prov[1].op \in {"insert", "pruned"} /\ MapMutate(1, k, 3)
    \/ \E k \in Elems : prov[1].op \in {"insert", "pruned"} /\ MapGet(1, k)

SpecEdit == InitWith("map", 1) /\ [][NextEdit]_vars

(* --------------------------- Vector insertion ---------------------------- *)
\* one Vector takes inserts at every index, those past its length included
NextInsert == \E i \in 0..(MaxLen + 1), t \in Elems : VectorInsert(1, i, t)

SpecInsert == InitWith("vector", 1) /\ [][NextInsert]_vars

(* ------------------------------ Iteration -------------------------------- *)
\* a collection of any kind is filled and iterated from either end, any
\* number of times
NextIter ==
    \/ \E t \in Elems : VectorPush(1, t)
    \/ \E t \in Elems : SetInsert(1, t)
    \/ \E k \in Elems : MapInsert(1, k, 1)
    \/ \E R \in {"Beginning", "End"} : IterNew(1, R)
    \/ IterNext
    \/ IterDrop

SpecIter == (\E kind \in Kinds : InitWith(kind, 1)) /\ [][NextIter]_vars

(* ------------------------------ Persistence ------------------------------ *)
\* persist writes the tree of a collection to the backend and returns the
\* digest of its root; first is the digest that the first persist since the
\* last mutation of the collection returned, again tells a repeated persist
Persist(s) ==
    /\ Idle
    /\ s \in Slots
    /\ LET r == Collection_persist(Handle(Store, colls[s].freezer), colls[s])
       IN  /\ Commit(r.fz)
           /\ prov' = [prov EXCEPT ![s] =
                          [op |-> "persisted", digest |-> r.digest,
                           first |-> IF @.op = "persisted" THEN @.first ELSE r.digest,
                           again |-> @.op = "persisted"]]
           /\ ret' = Some([op |-> "persist", s |-> s, digest |-> r.digest])
    /\ UNCHANGED <<colls, abs, iter, out, panicked>>

\* restore of the digest that the persist just before returned
Restore(s) ==
    /\ Idle
    /\ Len(colls) < MaxColl
    /\ \E g \in Last("persist") :
           /\ g.s = s
           /\ LET r == Collection_restore(colls[s].kind, Store, g.digest)
              IN  /\ Commit(r.fz)
                  /\ colls' = Append(colls, r.c)
                  /\ abs' = Append(abs, abs[s])
                  /\ prov' = Append(prov, [op |-> "restore", of |-> s])
                  /\ ret' = Some([op |-> "restore", s |-> s, t |-> Len(colls) + 1,
                                  digest |-> g.digest])
    /\ UNCHANGED <<iter, out, panicked>>

\* slot 1 is filled in ascending order and persisted at any stage, cloned
\* once, and the clone is mutated once; what was persisted is restored
Fresh(s, t) ==
    /\ Len(colls) = 1
    /\ prov[s].op \in {"new", "push", "insert", "persisted"}
    /\ \A i \in 1..Len(abs[s]) : AbsKey(colls[s].kind, abs[s][i]) < t

NextPersist ==
    \/ \E t \in Elems : Fresh(1, t) /\ VectorPush(1, t)
    \/ \E t \in Elems : Fresh(1, t) /\ SetInsert(1, t)
    \/ \E t \in Elems : Fresh(1, t) /\ MapInsert(1, t, 1)
    \/ Len(colls) = 1 /\ Clone(1)
    \/ \E t \in Elems : Len(colls) = 2 /\ prov[2].op = "clone" /\ VectorPush(2, t)
    \/ \E t \in Elems : Len(colls) = 2 /\ prov[2].op = "clone" /\ SetInsert(2, t)
    \/ \E t \in Elems : Len(colls) = 2 /\ prov[2].op = "clone" /\ MapInsert(2, t, 2)
    \/ \E s \in Slots : prov[s].op # "restore" /\ Persist(s)
    \/ \E s \in Slots : Len(colls) < 3 /\ Restore(s)

SpecPersist == (\E kind \in Kinds : InitWith(kind, 1)) /\ [][NextPersist]_vars

(* ------------------------------ observations ----------------------------- *)
\* the tree under a location, without the locations: leaves are elements,
\* inner children are the sequences of their children
RECURSIVE Shape(_, _)
Shape(ns, loc) ==
    [i \in 1..Len(ns[loc]) |->
        IF ns[loc][i].leaf THEN <<"leaf", ns[loc][i].t>>
        ELSE <<"node", Shape(ns, ns[loc][i].location)>>]

\* the leaves under a location in traversal order
RECURSIVE Leaves(_, _, _)
Leaves(ns, loc, i) ==
    IF i > Len(ns[loc]) THEN <<>>
    ELSE (IF ns[loc][i].leaf THEN <<ns[loc][i].t>>
          ELSE Leaves(ns, ns[loc][i].location, 1)) \o Leaves(ns, loc, i + 1)

Elements(s) == Leaves(nodes, colls[s].root, 1)

\* what iter() on slot s yields before its first None
Iterate(s) ==
    Call("Iter_collect", <<Store, colls[s].root, Iter_new(s, "Beginning"), MaxLen * MaxColl + 1>>)

Height(s) == Len(Call("Branch_first", <<"Beginning", Store, colls[s].root>>))

\* the Vector made by pushing the elements of seq, in order, onto an empty Vector
RECURSIVE PushAll(_)
PushAll(seq) ==
    IF seq = <<>> THEN Collection_new("vector", EmptyStore)
    ELSE LET p == PushAll(Take(seq, Len(seq) - 1))
         IN  Call("Vector_push", <<p.fz, p.c, seq[Len(seq)]>>)

\* the Set made by inserting the elements of seq, in order, into an empty Set
RECURSIVE InsertAll(_)
InsertAll(seq) ==
    IF seq = <<>> THEN Collection_new("set", EmptyStore)
    ELSE LET p == InsertAll(Take(seq, Len(seq) - 1))
         IN  Call("Set_insert", <<p.fz, p.c, seq[Len(seq)]>>)

\* a collection that has only ever been mutated by inserts
InsertBuilt(s) == prov[s].op \in {"new", "insert"}

StrictlyAscending(seq) == \A i \in 1..Len(seq), j \in 1..Len(seq) : i < j => seq[i] < seq[j]

Range(seq) == {seq[i] : i \in 1..Len(seq)}

InvLeaves == \A s \in Slots : Elements(s) = abs[s] /\ Iterate(s) = abs[s]

(* ------------------------------- properties ------------------------------ *)
\* C5: a get(i) on a Vector built by pushes e_0..e_{n-1} returns e_i when
\* i < n and None when i >= n
C5_VectorIndexing ==
    \A r \in {x \in {ret} : IsSome(x)} :
        LET g == Unwrap(r)
        IN  (g.op = "get" /\ prov[g.s].op \in {"new", "push"})
            => g.val = IF g.i < Len(abs[g.s]) THEN Some(abs[g.s][g.i + 1]) ELSE None

\* a get of the last element of a full pushed Vector whose tree has inner nodes
C5_Witness ==
    /\ IsSome(ret)
    /\ Unwrap(ret).op = "get"
    /\ prov[Unwrap(ret).s].op = "push"
    /\ Len(abs[Unwrap(ret).s]) = MaxLen
    /\ Unwrap(ret).i = MaxLen - 1
    /\ Unwrap(ret).val = Some(abs[Unwrap(ret).s][MaxLen])
    /\ Height(Unwrap(ret).s) >= 2

\* C8: with (L, R) = V.split(i) and 0 <= i <= |V|, L.concat(R) compares equal
\* to V and iterates the same element sequence as V
C8_SplitConcatRoundTrip ==
    \A c \in Slots :
        (/\ prov[c].op = "concat"
         /\ prov[prov[c].a].op = "split_left"
         /\ prov[prov[c].b].op = "split_right"
         /\ prov[prov[c].a].of = prov[prov[c].b].of
         /\ prov[prov[c].a].i = prov[prov[c].b].i
         /\ prov[prov[c].a].i <= Len(abs[prov[prov[c].a].of]))
        => LET v == prov[prov[c].a].of
           IN  /\ Collection_eq(colls[c], colls[v])
               /\ Iterate(c) = Iterate(v)

\* the two halves of a split strictly inside a Vector with inner nodes, joined again
C8_Witness ==
    \E c \in Slots :
        /\ prov[c].op = "concat"
        /\ prov[prov[c].a].op = "split_left"
        /\ prov[prov[c].b].op = "split_right"
        /\ prov[prov[c].a].of = prov[prov[c].b].of
        /\ prov[prov[c].a].i = prov[prov[c].b].i
        /\ prov[prov[c].a].i > 0
        /\ prov[prov[c].a].i < Len(abs[prov[prov[c].a].of])
        /\ Height(prov[prov[c].a].of) >= 2
        /\ Len(Iterate(c)) = MaxLen
        /\ Collection_eq(colls[c], colls[prov[prov[c].a].of])

\* C9: V.split(i) with 0 <= i <= n returns (L, R) where L iterates e_0..e_{i-1}
\* and then ends, and R iterates e_i..e_{n-1} and then ends
C9_SplitContents ==
    \A s \in Slots :
        /\ (prov[s].op = "split_left" /\ prov[s].i <= Len(abs[prov[s].of]))
           => Iterate(s) = Take(abs[prov[s].of], prov[s].i)
        /\ (prov[s].op = "split_right" /\ prov[s].i <= Len(abs[prov[s].of]))
           => Iterate(s) = Drop(abs[prov[s].of], prov[s].i)

\* a split strictly inside a Vector with inner nodes, both halves iterating their part
C9_Witness ==
    \E l \in Slots, r \in Slots :
        /\ prov[l].op = "split_left" /\ prov[r].op = "split_right"
        /\ prov[l].of = prov[r].of
        /\ prov[l].i = 1
        /\ Len(abs[prov[l].of]) = MaxLen
        /\ Height(prov[l].of) >= 2
        /\ Iterate(l) = Take(abs[prov[l].of], 1)
        /\ Iterate(r) = Drop(abs[prov[l].of], 1)

\* C10: the Vector built by insert(0, e_{n-1}), ..., insert(0, e_0) and the one
\* built by push(e_0), ..., push(e_{n-1}) have identical trees, compare equal
\* and both iterate e_0..e_{n-1}
C10_PushVersusInsertAtHead ==
    \A s \in Slots :
        prov[s].op = "head"
        => LET p == PushAll(abs[s])
           IN  /\ Shape(nodes, colls[s].root) = Shape(p.fz.nodes, p.c.root)
               /\ Collection_eq(colls[s], p.c)
               /\ Iterate(s) = abs[s]
               /\ Call("Iter_collect", <<p.fz, p.c.root, Iter_new(s, "Beginning"), MaxLen + 1>>)
                  = abs[s]

\* a full Vector built at the head whose tree has inner nodes
C10_Witness ==
    \E s \in Slots :
        /\ prov[s].op = "head"
        /\ Len(abs[s]) = MaxLen
        /\ Height(s) >= 2
        /\ Shape(nodes, colls[s].root) = Shape(PushAll(abs[s]).fz.nodes, PushAll(abs[s]).c.root)

\* C2: two Sets built by inserting the same elements in any two orders have
\* identical trees, equal CheckSum metadata and compare equal
C2_OrderIndependentConstruction ==
    \A a \in Slots, b \in Slots :
        (InsertBuilt(a) /\ InsertBuilt(b) /\ Range(abs[a]) = Range(abs[b]))
        => /\ Shape(nodes, colls[a].root) = Shape(nodes, colls[b].root)
           /\ colls[a].meta = colls[b].meta
           /\ Collection_eq(colls[a], colls[b])

\* two full Sets with inner nodes holding the same elements, one filled in
\* ascending order and the other not
C2_Witness ==
    \E a \in Slots, b \in Slots :
        /\ prov[a].op = "insert" /\ prov[b].op = "insert"
        /\ Ascending(prov[a]) /\ ~Ascending(prov[b])
        /\ abs[a] = abs[b]
        /\ Len(abs[a]) = MaxLen
        /\ Height(a) >= 2
        /\ Shape(nodes, colls[a].root) = Shape(nodes, colls[b].root)

\* C4: iter() on a Set yields its elements in ascending order, each exactly
\* once, and then None
C4_SetIteration ==
    \A it \in {x \in {iter} : IsSome(x)} :
        LET s == Unwrap(it).s
            n == Len(abs[s])
            items == [i \in 1..Min(Len(out), n) |-> out[i]]
        IN  colls[s].kind = "set"
            => /\ Len(out) <= n + 1
               /\ \A i \in 1..Len(items) : IsSome(items[i])
               /\ StrictlyAscending([i \in 1..Len(items) |-> Unwrap(items[i])])
               /\ {Unwrap(items[i]) : i \in 1..Len(items)} \subseteq Range(abs[s])
               /\ Len(out) = n + 1 => out[n + 1] = None

\* an iterator over a full Set with inner nodes, filled out of order, that has
\* yielded every element and then None
C4_Witness ==
    /\ IsSome(iter)
    /\ prov[Unwrap(iter).s].op = "insert"
    /\ ~Ascending(prov[Unwrap(iter).s])
    /\ Height(Unwrap(iter).s) >= 2
    /\ Len(out) = MaxLen + 1
    /\ \A i \in 1..MaxLen : out[i] = Some(abs[Unwrap(iter).s][i])
    /\ out[MaxLen + 1] = None

\* C6: A.union(B) iterates the distinct elements of A and B in ascending
\* order, compares equal to the Set built by inserting those elements one by
\* one, and compares equal to B.union(A)
C6_SetUnion ==
    \A u \in Slots :
        (prov[u].op = "union" /\ colls[u].kind = "set")
        => LET a == prov[u].a
               b == prov[u].b
           IN  /\ StrictlyAscending(Iterate(u))
               /\ Range(Iterate(u)) = Range(abs[a]) \cup Range(abs[b])
               /\ Collection_eq(colls[u], InsertAll(Iterate(u)).c)
               /\ \A w \in Slots :
                      prov[w] = [op |-> "union", a |-> b, b |-> a]
                      => Collection_eq(colls[u], colls[w])

\* the two unions of two overlapping Sets, neither containing the other, whose
\* union has inner nodes
C6_Witness ==
    \E u \in Slots, w \in Slots :
        /\ prov[u].op = "union"
        /\ prov[w] = [op |-> "union", a |-> prov[u].b, b |-> prov[u].a]
        /\ Range(abs[prov[u].a]) \cap Range(abs[prov[u].b]) # {}
        /\ Range(abs[prov[u].a]) \ Range(abs[prov[u].b]) # {}
        /\ Range(abs[prov[u].b]) \ Range(abs[prov[u].a]) # {}
        /\ Height(u) >= 2
        /\ Len(Iterate(u)) = NElem
        /\ Collection_eq(colls[u], colls[w])

\* the keys of a sequence of key/value pairs
Keys(seq) == [i \in 1..Len(seq) |-> seq[i].k]

\* the value that a sequence of key/value pairs holds under key k, if any
ValueAt(seq, k) ==
    IF AbsHas("map", seq, k) THEN Some(seq[AbsRank("map", seq, k) + 1].v) ELSE None

\* o.or(p) on options
Or(o, p) == IF IsSome(o) THEN o ELSE p

\* C7: A.merge(B).get(k) is B.get(k) when B contains k and A.get(k)
\* otherwise, and the merged Map holds every key of A or B exactly once
C7_MapMergeTiebreak ==
    \A u \in Slots :
        (prov[u].op = "union" /\ colls[u].kind = "map")
        => LET a == prov[u].a
               b == prov[u].b
           IN  /\ \A k \in Elems :
                      Call("Map_get", <<Store, colls[u], k>>)
                      = Or(Call("Map_get", <<Store, colls[b], k>>),
                           Call("Map_get", <<Store, colls[a], k>>))
               /\ \A r \in {x \in {ret} : IsSome(x)} :
                      (Unwrap(r).op = "get" /\ Unwrap(r).s = u)
                      => Unwrap(r).val
                         = Or(ValueAt(abs[b], Unwrap(r).k), ValueAt(abs[a], Unwrap(r).k))
               /\ StrictlyAscending(Keys(Iterate(u)))
               /\ Range(Keys(Iterate(u))) = Range(Keys(abs[a])) \cup Range(Keys(abs[b]))

\* a get on the merge of two Maps with inner nodes and the same keys, of a key
\* under which they hold different values
C7_Witness ==
    \E u \in Slots :
        /\ prov[u].op = "union" /\ colls[u].kind = "map"
        /\ Keys(abs[prov[u].a]) = Keys(abs[prov[u].b])
        /\ Len(abs[prov[u].a]) = MaxLen
        /\ Height(prov[u].a) >= 2
        /\ IsSome(ret)
        /\ Unwrap(ret).op = "get" /\ Unwrap(ret).s = u
        /\ ValueAt(abs[prov[u].a], Unwrap(ret).k) = Some(1)
        /\ ValueAt(abs[prov[u].b], Unwrap(ret).k) = Some(2)
        /\ Unwrap(ret).val = Some(2)

\* C3: two collections compare equal with == if and only if their element
\* sequences are equal
C3_EqualityExact ==
    \A a \in Slots, b \in Slots :
        Collection_eq(colls[a], colls[b]) <=> abs[a] = abs[b]

\* the store after the step
StoreNext ==
    [nodes |-> nodes', owner |-> owner', handles |-> handles', backend |-> backend', h |-> 0]

\* C1: a mutation applied to one collection leaves the element sequence and
\* the top-level metadata of every other collection unchanged, its clones and
\* the collections it was cloned from included
C1_PersistenceUnderClone ==
    [][\A s \in Slots, t \in Slots :
          (s # t /\ abs'[s] # abs[s])
          => /\ Leaves(nodes', colls'[t].root, 1) = Leaves(nodes, colls[t].root, 1)
             /\ Call("Iter_collect", <<StoreNext, colls'[t].root,
                                       Iter_new(t, "Beginning"), MaxLen * MaxColl + 1>>)
                = Iterate(t)
             /\ colls'[t].meta = colls[t].meta]_vars

\* an untouched clone of a clone with inner nodes, after both the collection it
\* was cloned from and the original have been mutated
C1_Witness ==
    \E s \in Slots, t \in Slots :
        /\ s # 1
        /\ prov[t] = [op |-> "clone", of |-> s]
        /\ abs[s] # abs[t]
        /\ abs[1] # abs[t] /\ abs[1] # abs[s]
        /\ Len(abs[t]) >= 2
        /\ Height(t) >= 2
        /\ Elements(t) = abs[t]
        /\ Iterate(t) = abs[t]

\* C11: remove(i) on a Vector holding e_0..e_{n-1} returns Some(e_i) and
\* leaves the others in order when i < n; it returns None and leaves the Vector
\* as it was when i >= n
C11_VectorRemove ==
    \A g \in Last("remove") :
        colls[g.s].kind = "vector"
            => /\ g.val = IF g.key < Len(g.was) THEN Some(g.was[g.key + 1]) ELSE None
               /\ Iterate(g.s) = IF g.key < Len(g.was) THEN RemoveAt(g.was, g.key) ELSE g.was
               /\ Elements(g.s) = Iterate(g.s)

C11_Witness ==
    \E g \in Last("remove") :
        /\ colls[g.s].kind = "vector"
        /\ Len(g.was) = MaxLen
        /\ g.key = 1
        /\ Height(g.s) > 1

C11_WitnessPast ==
    \E g \in Last("remove") :
        /\ colls[g.s].kind = "vector"
        /\ g.was # <<>>
        /\ g.key >= Len(g.was)

\* C12: pop on a Vector holding e_0..e_{n-1}, n >= 1, returns Some(e_{n-1})
\* and leaves e_0..e_{n-2}; on an empty Vector it returns None
C12_VectorPop ==
    \A g \in Last("pop") :
        /\ g.val = IF g.was = <<>> THEN None ELSE Some(g.was[Len(g.was)])
        /\ Iterate(g.s) = Take(g.was, SatSub(Len(g.was), 1))

\* C13: after any sequence of inserts and removes on a Set, member(t) is true
\* exactly when t was inserted and not removed since, whether t lies below the
\* smallest element, between two elements or above the largest one
C13_SetMembership ==
    \A s \in Slots : colls[s].kind = "set" =>
        /\ \A t \in Elems :
               Call("Set_member", <<Store, colls[s], t>>) = AbsHas("set", abs[s], t)
        /\ \A g \in Last("member") : g.val = AbsHas("set", abs[g.s], g.t)

\* a member(t) answered false for a removed t lying between two elements of
\* a Set that was filled, taken from and filled again
C13_Witness ==
    \E g \in Last("member") :
        /\ prov[g.s].op = "mixed"
        /\ ~g.val
        /\ Len(abs[g.s]) >= 2
        /\ \E i \in 1..(Len(abs[g.s]) - 1) : abs[g.s][i] < g.t /\ g.t < abs[g.s][i + 1]

C13_WitnessPresent ==
    \E g \in Last("member") : prov[g.s].op = "mixed" /\ g.val /\ Height(g.s) > 1

\* the collection of kind kind built from scratch with the elements of seq
Built(kind, seq) == IF kind = "vector" THEN PushAll(seq) ELSE InsertAll(seq)

\* the collection of the kind of slot s built from scratch with what the
\* contract leaves in s
FromScratch(s) == Built(colls[s].kind, abs[s])

\* C14: a Set or a Vector from which any elements were removed in any order
\* has the shape of, and compares equal to, the collection built from scratch
\* with the remaining elements; with every element removed it equals a new
\* empty collection and its root is an empty node, not a chain of single-child
\* nodes
C14_RemovalCanonical ==
    \A s \in Slots : prov[s].op = "pruned" =>
        /\ Shape(nodes, colls[s].root) = Shape(FromScratch(s).fz.nodes, FromScratch(s).c.root)
        /\ Collection_eq(colls[s], FromScratch(s).c)
        /\ colls[s].meta = FromScratch(s).c.meta
        /\ abs[s] = <<>> => /\ Shape(nodes, colls[s].root) = <<>>
                            /\ Collection_eq(colls[s], Collection_new(colls[s].kind, EmptyStore).c)

\* whether the root of the tree at loc has nodes for children
Deep(ns, loc) == \E i \in 1..Len(ns[loc]) : ~ns[loc][i].leaf

\* a tree of height 2 or more brought down to a single non-empty node by a
\* removal
C14_Witness ==
    \E s \in Slots, g \in Last("remove") :
        /\ prov[s].op = "pruned"
        /\ g.s = s
        /\ IsSome(g.val)
        /\ Deep(Built(colls[s].kind, g.was).fz.nodes, Built(colls[s].kind, g.was).c.root)
        /\ abs[s] # <<>>
        /\ ~Deep(nodes, colls[s].root)

\* a tree that stays of height 2 or more after a removal
C14_WitnessDeep ==
    \E s \in Slots, g \in Last("remove") :
        /\ prov[s].op = "pruned" /\ g.s = s /\ IsSome(g.val) /\ Deep(nodes, colls[s].root)

C14_WitnessEmptied ==
    \E s \in Slots, g \in Last("remove") :
        /\ prov[s].op = "pruned" /\ g.s = s /\ Len(g.was) = 1 /\ abs[s] = <<>>
        /\ Shape(nodes, colls[s].root) = <<>>

\* the leaves of a Map with their values left out: where the node boundaries lie
RECURSIVE KeyShape(_, _)
KeyShape(ns, loc) ==
    [i \in 1..Len(ns[loc]) |->
        IF ns[loc][i].leaf THEN <<"leaf", ns[loc][i].t.k>>
        ELSE <<"node", KeyShape(ns, ns[loc][i].location)>>]

\* what get answers for every key, by the contract
GetsRight(s) ==
    \A k \in Elems :
        Call("Map_get", <<Store, colls[s], k>>) = ValueAt(abs[s], k)

\* an insert under a present key replaces the value, keeps one entry for the
\* key and leaves the node boundaries where they were
Overwrites(s, k, v) ==
    (ret' = None /\ AbsHas("map", abs[s], k) /\ abs'[s] = AbsPut("map", abs[s], KV(k, v))
        /\ MapInsert(s, k, v))
        => /\ KeyShape(nodes', colls'[s].root) = KeyShape(nodes, colls[s].root)
           /\ Leaves(nodes', colls'[s].root, 1) = AbsPut("map", abs[s], KV(k, v))

C15_WitnessAbsent ==
    \E g \in Last("get") : prov[g.s].op = "pruned" /\ g.val = None /\ abs[g.s] # <<>>

\* the Map made by inserting the pairs of seq, in order, into an empty Map
RECURSIVE MapInsertAll(_)
MapInsertAll(seq) ==
    IF seq = <<>> THEN Collection_new("map", EmptyStore)
    ELSE LET p == MapInsertAll(Take(seq, Len(seq) - 1))
         IN  Call("Map_insert", <<p.fz, p.c, seq[Len(seq)].k, seq[Len(seq)].v>>)

Reverse(seq) == [i \in 1..Len(seq) |-> seq[Len(seq) + 1 - i]]

\* a tree with the metadata its nodes hold for their children
RECURSIVE MetaShape(_, _)
MetaShape(ns, loc) ==
    [i \in 1..Len(ns[loc]) |->
        IF ns[loc][i].leaf THEN <<"leaf", ns[loc][i].t>>
        ELSE <<"node", ns[loc][i].meta, MetaShape(ns, ns[loc][i].location)>>]

\* slot s is, node for node and metadata included, the Map that b is
SameMap(s, b) ==
    /\ Collection_eq(colls[s], b.c)
    /\ colls[s].meta = b.c.meta
    /\ MetaShape(nodes, colls[s].root) = MetaShape(b.fz.nodes, b.c.root)

\* a mutate under an absent key returns None and changes nothing
MutatesNothing(s, k, v) ==
    (~AbsHas("map", abs[s], k) /\ IsSome(ret') /\ Unwrap(ret').op = "mutate"
        /\ MapMutate(s, k, v))
        => /\ nodes' = nodes
           /\ colls' = colls
           /\ \A g \in {Unwrap(ret')} : g.val = None

\* C16: after mutate(k, f) on a present key the Map compares equal to a Map
\* built by inserting the final key-to-value pairs in any order, the ValSum of
\* every node on the path to k and of the top-level metadata being that of the
\* new value; mutate on an absent key returns None and changes nothing
C16_MapMutate ==
    /\ [](\A g \in Last("mutate") :
            AbsHas("map", g.was, g.k)
                => /\ g.val # None
                   /\ Elements(g.s) = abs[g.s]
                   /\ SameMap(g.s, MapInsertAll(abs[g.s]))
                   /\ SameMap(g.s, MapInsertAll(Reverse(abs[g.s]))))
    /\ [][\A s \in Slots, k \in Elems : MutatesNothing(s, k, 3)]_vars

\* a mutate of a key that lies in a node below the root
C16_Witness ==
    \E g \in Last("mutate") :
        /\ AbsHas("map", g.was, g.k)
        /\ Len(g.was) = MaxLen - 1
        /\ ValueAt(abs[g.s], g.k) = Some(3)
        /\ Deep(nodes, colls[g.s].root)
        /\ \E i \in 1..Len(nodes[colls[g.s].root]) :
               /\ ~nodes[colls[g.s].root][i].leaf
               /\ AbsHas("map", Leaves(nodes, nodes[colls[g.s].root][i].location, 1), g.k)

C16_WitnessAbsent ==
    \E g \in Last("mutate") : ~AbsHas("map", g.was, g.k) /\ g.was # <<>> /\ g.val = None

\* an insert at i panics and leaves the Vector as it was when i lies past the
\* length, and otherwise puts t at index i, before the elements that were at i
\* and after
InsertsAt(s, i, t) ==
    (ret' = Some([op |-> "insert", s |-> s, i |-> i, t |-> t]) /\ VectorInsert(s, i, t))
        => IF i > Len(Leaves(nodes, colls[s].root, 1))
           THEN /\ panicked'
                /\ nodes' = nodes
                /\ colls' = colls
           ELSE /\ ~panicked'
                /\ Leaves(nodes', colls'[s].root, 1) = InsertAt(Leaves(nodes, colls[s].root, 1), i, t)
                /\ Call("Vector_get", <<StoreNext, colls'[s], i>>) = Some(t)

\* C17: Vector.insert(i, t) with i > |V| panics and leaves the element
\* sequence, the root and the metadata as they were; with i <= |V| it succeeds
\* and makes t the element at index i, the elements at i and after moving up
\* by one
C17_InsertPastLength ==
    [][\A s \in Slots, i \in 0..(MaxLen + 1), t \in Elems : InsertsAt(s, i, t)]_vars

\* an insert past the length of a Vector of height 2 or more has panicked
C17_Witness ==
    /\ panicked
    /\ \E g \in Last("insert") : g.i > Len(abs[g.s])
    /\ Len(abs[1]) >= 2
    /\ Deep(nodes, colls[1].root)
    /\ Elements(1) = abs[1]

C17_WitnessInside ==
    /\ ~panicked
    /\ \E g \in Last("insert") : 0 < g.i /\ g.i < Len(abs[g.s]) - 1
    /\ Deep(nodes, colls[1].root)

\* C20: iter_rev() yields the elements that iter() yields, each once and in
\* the reverse order, and then None, whatever the height of the tree
C20_ReverseIteration ==
    \A it \in {x \in {iter} : IsSome(x)} :
        LET s == Unwrap(it).s
            fwd == Iterate(s)
            n == Len(fwd)
        IN  Unwrap(it).R = "End"
            => /\ Len(out) <= n + 1
               /\ \A i \in 1..Min(Len(out), n) : out[i] = Some(fwd[n + 1 - i])
               /\ Len(out) = n + 1 => out[n + 1] = None

\* a reverse iteration of a tree of height 2 or more that has come to its end
C20_Witness ==
    /\ IsSome(iter)
    /\ Unwrap(iter).R = "End"
    /\ Height(Unwrap(iter).s) >= 2
    /\ Len(out) = MaxLen + 1
    /\ out[1] = Some(abs[Unwrap(iter).s][MaxLen])
    /\ out[MaxLen + 1] = None

\* what iter() yields on the collection restored from a digest
Restored(kind, digest) ==
    Call("Iter_collect", <<Store, from_hash(Store, digest), Iter_new(0, "Beginning"),
                           MaxLen * MaxColl + 1>>)

\* C18: the collection restored from the digest that C.persist() returned
\* compares equal to C and iterates the element sequence of C, its nodes
\* being thawed from the backend by digest when the traversal reaches them
C18_PersistRestore ==
    /\ \A g \in Last("restore") :
           /\ Collection_eq(colls[g.t], colls[g.s])
           /\ colls[g.t].meta = colls[g.s].meta
           /\ Iterate(g.t) = Iterate(g.s)
           /\ colls[g.t].root < 0
    /\ \A t \in Slots : prov[t].op = "restore" => Iterate(t) = abs[t]

\* a restored collection whose tree has a height of 2 or more
C18_Witness ==
    \E g \in Last("restore") :
        /\ Len(abs[g.t]) = MaxLen
        /\ Iterate(g.t) = abs[g.s]
        /\ Height(g.t) >= 2

\* every blob of the backend names children that the backend holds
Closed(be) ==
    \A i \in 1..Len(be) :
        ~be[i].bytes[2] =>
            \A j \in 3..Len(be[i].bytes) : Backend_find(be, be[i].bytes[j].digest) # 0

\* C19: persist returns the same digest while the collection is not mutated,
\* also after a clone of it was mutated and persisted; a persist leaves every
\* blob of the backend under its digest, and what a digest once returned
\* names stays in the backend, whole
C19_DigestStability ==
    /\ [](\A s \in Slots : prov[s].op = "persisted" =>
            /\ prov[s].digest = prov[s].first
            /\ Collection_persist(Handle(Store, colls[s].freezer), colls[s]).digest
                   = prov[s].first
            /\ Restored(colls[s].kind, prov[s].first) = abs[s])
    /\ [](Closed(backend))
    /\ [][\A i \in 1..Len(backend) : Len(backend') >= i /\ backend'[i] = backend[i]]_vars

\* a collection persisted again after its clone was mutated and persisted
C19_Witness ==
    /\ Len(colls) >= 2
    /\ prov[1].op = "persisted" /\ prov[1].again
    /\ prov[2].op = "persisted"
    /\ abs[1] # abs[2]
    /\ Len(abs[1]) >= 2
    /\ \E g \in Last("persist") : g.s = 1

(* ---------------------------- reachable trees --------------------------- *)
\* no collection has been cut or joined yet
Whole == Len(colls) = IF colls[1].kind = "vector" THEN 1 ELSE 2

\* the collections still grow: nothing has been taken from them
Growing == Whole /\ Last("remove") = {}

\* the element or key t comes after everything slot s holds
Above(s, t) == \A i \in 1..Len(abs[s]) : AbsKey(colls[s].kind, abs[s][i]) < t

\* the second collection is still as it was made
Alone == prov[Len(colls)].op = "new"

\* a Vector grows by pushes or by inserts of distinct elements at any place,
\* shrinks, and is cut and joined again; of two Sets the first grows in any
\* order and the second in ascending order; two Maps grow in ascending order;
\* the first of the two may shrink while the second is empty; the two are
\* then united
NextTree ==
    \/ \E t \in Elems : /\ Growing /\ prov[1].op \in {"new", "push"}
                        /\ ~AbsHas(colls[1].kind, abs[1], t) /\ VectorPush(1, t)
    \/ \E i \in 0..MaxLen, t \in Elems :
           /\ Growing /\ prov[1].op # "push" /\ i <= Len(abs[1])
           /\ ~AbsHas(colls[1].kind, abs[1], t) /\ VectorInsert(1, i, t)
    \/ \E i \in 0..MaxLen : /\ Whole /\ prov[1].op \in {"push", "pruned"}
                            /\ i < Len(abs[1]) /\ VectorRemove(1, i)
    \/ \E i \in 0..MaxLen : Whole /\ i <= Len(abs[1]) /\ VectorSplit(1, i)
    \/ Len(colls) = 3 /\ VectorConcat(3, 2)
    \/ \E i \in 0..MaxLen : /\ Len(colls) = 3 /\ prov[1].op = "push"
                            /\ i <= Len(abs[2]) /\ VectorSplice(2, i, 3)
    \/ \E s \in 1..2, t \in Elems :
           /\ Growing /\ s <= Len(colls) /\ (IF s = 1 THEN Alone ELSE Above(s, t))
           /\ SetInsert(s, t)
    \/ \E t \in Elems : Whole /\ Alone /\ AbsHas(colls[1].kind, abs[1], t) /\ SetRemove(1, t)
    \/ Whole /\ SetUnion(1, 2)
    \/ \E s \in 1..2, k \in Elems :
           /\ Growing /\ (s = 1 => Alone) /\ s <= Len(colls) /\ Above(s, k)
           /\ MapInsert(s, k, s)
    \/ \E k \in Elems : Whole /\ Alone /\ AbsHas(colls[1].kind, abs[1], k) /\ MapRemove(1, k)
    \/ Whole /\ MapMerge(1, 2)

SpecTree ==
    /\ InitWith("vector", 1) \/ InitWith("set", 2) \/ InitWith("map", 2)
    /\ [][NextTree]_vars

(* --------------------------- weight placement ---------------------------- *)
\* the leaves under loc from child i on, in traversal order, each with the
\* number of levels, counted from the bottom, on which it or the node that
\* holds it is a last child (run), and whether that count reached loc (open)
RECURSIVE Runs(_, _, _)
Runs(ns, loc, i) ==
    IF i > Len(ns[loc]) THEN <<>>
    ELSE LET c == ns[loc][i]
             last == i = Len(ns[loc])
             more == IF last THEN 1 ELSE 0
             sub == Runs(ns, c.location, 1)
         IN  (IF c.leaf THEN <<[t |-> c.t, run |-> more, open |-> last]>>
              ELSE [j \in 1..Len(sub) |->
                       IF sub[j].open
                       THEN [t |-> sub[j].t, run |-> sub[j].run + more, open |-> last]
                       ELSE sub[j]])
             \o Runs(ns, loc, i + 1)

\* the number of levels of the tree under loc
RECURSIVE Levels(_, _)
Levels(ns, loc) ==
    IF ns[loc] = <<>> \/ ns[loc][1].leaf THEN 1 ELSE 1 + Levels(ns, ns[loc][1].location)

\* how many levels above the bottom the leaf t asks to be split at
SplitDepth(kind, t) == weight(kind, t) \div divisor

\* every leaf but the last of the tree under loc sits where its weight puts it
Placed(kind, ns, loc) ==
    LET rs == Runs(ns, loc, 1)
    IN  \A j \in 1..(Len(rs) - 1) :
            IF SplitDepth(kind, rs[j].t) > 0
            THEN /\ rs[j].run >= SplitDepth(kind, rs[j].t)
                 /\ Levels(ns, loc) >= SplitDepth(kind, rs[j].t) + 1
            ELSE rs[j].run = 0

\* C21: in every tree reached by insert, push, remove, split, concat and
\* union, a leaf of split depth d > 0 that is not the last leaf closes its
\* bottom node and the d - 1 nodes above it, in a tree of d + 1 levels or
\* more, and a leaf of split depth 0 closes its bottom node only when it is the
\* last leaf of the collection
C21_WeightPlacement == \A s \in Slots : Placed(colls[s].kind, nodes, colls[s].root)

\* a leaf of split depth 2 that is not the last one, in a tree made by a
\* removal, a concat or a union
C21_Witness ==
    \E s \in Slots :
        /\ prov[s].op \in {"pruned", "concat", "union"}
        /\ \E j \in 1..(Len(abs[s]) - 1) : SplitDepth(colls[s].kind, abs[s][j]) = 2
        /\ Levels(nodes, colls[s].root) >= 3

\* leaves of split depth 1 and 2 ahead of the last leaf of a Vector that was
\* filled by inserts or cut off another
C21_WitnessAll ==
    \E s \in Slots :
        /\ prov[s].op \in {"mixed", "split_left", "split_right"}
        /\ \A d \in 1..2 : \E j \in 1..(Len(abs[s]) - 1) : SplitDepth("vector", abs[s][j]) = d

(* ---------------------------- cached metadata ---------------------------- *)
\* every child that names a node, in the tree under loc, carries the metadata
\* folded from the children of the node it names
RECURSIVE MetaExact(_, _, _)
MetaExact(kind, ns, loc) ==
    \A i \in 1..Len(ns[loc]) :
        \/ ns[loc][i].leaf
        \/ /\ Some(ns[loc][i].meta) = Node_meta(kind, ns[ns[loc][i].location])
           /\ MetaExact(kind, ns, ns[loc][i].location)

\* C22: after every public operation, every child that names a node carries
\* the left fold of merge over the metadata of that node's children, and the
\* collection's meta is the metadata of its root node, None exactly when the
\* root is empty
C22_CachedMetadata ==
    \A s \in Slots :
        /\ MetaExact(colls[s].kind, nodes, colls[s].root)
        /\ colls[s].meta = Node_meta(colls[s].kind, nodes[colls[s].root])
        /\ colls[s].meta = None <=> nodes[colls[s].root] = <<>>

(* ---------------------- metadata merge and weight ------------------------ *)
\* 64-bit values with their set bits at either end of a limb
Words == {<<a, b, c, d>> : a \in {0, 1, Limb - 1}, b \in {0, Limb \div 2}, c \in {0, 1}, d \in {0, 1, Limb \div 2, Limb - 1}}

\* the concrete metadata
Metas == {"Cardinality", "Max", "Key", "CheckSum", "KeySum", "ValSum"}

\* the values a metadata is drawn from: counts, elements or keys, hashes
MetaValues(m) ==
    CASE m = "Cardinality" -> 1..(2 * MaxLen)
      [] m \in {"Max", "Key"} -> Elems
      [] OTHER -> {w \in Words : w[2] = 0 /\ w[3] = 0 /\ w[4] # 1}

\* Meta::merge of the metadata named m
MetaMerge(m, a, b) ==
    CASE m = "Cardinality" -> CardinalityMerge(a, b)
      [] m \in {"Max", "Key"} -> MaxMerge(a, b)
      [] OTHER -> CheckSumMerge(a, b)

\* the arguments of a function wait in out; no collection is involved
Args(a) ==
    /\ out = a
    /\ ret = None
    /\ nodes = <<>> /\ owner = <<>> /\ handles = 0 /\ backend = <<>>
    /\ colls = <<>> /\ abs = <<>> /\ prov = <<>>
    /\ iter = None
    /\ panicked = FALSE

\* a, b and c are merged from the left and from the right
MergeBothWays ==
    /\ ret = None
    /\ out[1] \in Metas
    /\ Returned([op |-> "merge",
                 left |-> MetaMerge(out[1], MetaMerge(out[1], out[2], out[3]), out[4]),
                 right |-> MetaMerge(out[1], out[2], MetaMerge(out[1], out[3], out[4]))])

\* weight() of an element whose weight_hash is out[2]
Weigh ==
    /\ ret = None
    /\ out[1] = "weight"
    /\ Returned([op |-> "weight", w |-> weightLoop(out[2], 0)])

SpecPure ==
    /\ \/ \E m \in Metas : \E a \in MetaValues(m), b \in MetaValues(m), c \in MetaValues(m) :
              Args(<<m, a, b, c>>)
       \/ \E h \in Words : Args(<<"weight", h>>)
    /\ [][MergeBothWays \/ Weigh]_vars

\* C23: for each concrete metadata and all values a, b and c, merging a with b
\* and then with c gives what merging a with the merge of b and c gives
C23_MergeAssociative == \A g \in Last("merge") : g.left = g.right

\* the bits of a limb from its highest set bit down
RECURSIVE BitLen(_)
BitLen(x) == IF x = 0 THEN 0 ELSE 1 + BitLen(x \div 2)

\* the leading zero bits of a 64-bit value, 64 for the value 0
LeadingZeros(h) ==
    IF \A j \in 1..4 : h[j] = 0 THEN 64
    ELSE LET top == CHOOSE j \in 1..4 : h[j] # 0 /\ \A k \in (j + 1)..4 : h[k] = 0
         IN  16 * (4 - top) + 16 - BitLen(h[top])

\* C24: for every 64-bit weight_hash value, weight() returns its number of
\* leading zero bits, a value in 0..63, and evaluates no shift outside 0..63
C24_WeightTotal ==
    \A g \in Last("weight") : g.w \in 0..63 /\ g.w = LeadingZeros(out[2])

(* -------------------------------- Stash ---------------------------------- *)
\* a Stash is [uniq, shared]: the hot tier and the shared tiers, newest first.
\* A Location is [ofs, depth]: depth 0 is the hot tier and depth k the shared
\* tier k - 1; ofs counts from 0. The Location a child holds is relative to the
\* tier of the node that holds it.
Stash_new == [uniq |-> <<>>, shared |-> <<>>]

Location_new(ofs, d) == [ofs |-> ofs, depth |-> d]

Location_relative(loc, d) == [ofs |-> loc.ofs, depth |-> loc.depth + d]

\* the children of a node that leaves the tier at depth d for the hot tier
\* name their nodes from the hot tier
RECURSIVE Node_relativize(_, _)
Node_relativize(node, d) ==
    IF node = <<>> THEN <<>>
    ELSE <<IF Head(node).leaf THEN Head(node)
           ELSE [Head(node) EXCEPT !.location = Location_relative(@, d)]>>
         \o Node_relativize(Tail(node), d)

Stash_put(st, node) ==
    [st |-> [st EXCEPT !.uniq = Append(@, node)], loc |-> Location_new(Len(st.uniq), 0)]

Stash_get(st, loc) ==
    IF loc.depth = 0 THEN st.uniq[loc.ofs + 1] ELSE st.shared[loc.depth][loc.ofs + 1]

Stash_get_clone(st, loc) ==
    IF loc.depth = 0 THEN st.uniq[loc.ofs + 1]
    ELSE Node_relativize(st.shared[loc.depth][loc.ofs + 1], loc.depth)

\* variant: the node is handed out where it lies, in whatever tier
Stash_get_mut_in_place(st, loc) == [st |-> st, loc |-> loc]

\* st and loc are the stash and the Location after the call; the mutable
\* reference returned is to the node at loc
Stash_get_mut(st, loc) ==
    IF loc.depth = 0 THEN [st |-> st, loc |-> loc]
    ELSE [st |-> [st EXCEPT !.uniq =
                      Append(@, Node_relativize(st.shared[loc.depth][loc.ofs + 1], loc.depth))],
          loc |-> Location_new(Len(st.uniq), 0)]

\* a write through the reference that get_mut returned for loc
Stash_write(st, loc, node) ==
    IF loc.depth = 0 THEN [st EXCEPT !.uniq[loc.ofs + 1] = node]
    ELSE [st EXCEPT !.shared[loc.depth][loc.ofs + 1] = node]

\* variant: the hot tier is frozen behind the shared tiers
Stash_clone_mut_behind(st, rt) ==
    IF rt.depth = 0
    THEN [st |-> [uniq |-> <<>>, shared |-> Append(st.shared, st.uniq)],
          root |-> [rt EXCEPT !.depth = @ + 1],
          new |-> [uniq |-> <<>>, shared |-> Append(st.shared, st.uniq)]]
    ELSE [st |-> st, root |-> rt, new |-> [uniq |-> <<>>, shared |-> st.shared]]

\* st and root are the stash and its root after the call, new the stash returned
Stash_clone_mut(st, rt) ==
    IF rt.depth = 0
    THEN [st |-> [uniq |-> <<>>, shared |-> <<st.uniq>> \o st.shared],
          root |-> [rt EXCEPT !.depth = @ + 1],
          new |-> [uniq |-> <<>>, shared |-> <<st.uniq>> \o st.shared]]
    ELSE [st |-> st, root |-> rt, new |-> [uniq |-> <<>>, shared |-> st.shared]]

\* variant: the root of the other stash is left as it was
Stash_merge_unshifted(st, rt, other_root, other) ==
    LET a == Stash_clone_mut(st, rt)
        b == Stash_clone_mut(other, other_root)
        shared == a.st.shared \o b.st.shared
    IN  [st |-> [a.st EXCEPT !.shared = shared],
         root |-> a.root,
         other_root |-> b.root,
         other |-> [b.st EXCEPT !.shared = shared],
         new |-> [uniq |-> <<>>, shared |-> shared]]

Stash_merge(st, rt, other_root, other) ==
    LET a == Stash_clone_mut(st, rt)
        b == Stash_clone_mut(other, other_root)
        ofs == Len(a.st.shared)
        shared == a.st.shared \o b.st.shared
    IN  [st |-> [a.st EXCEPT !.shared = shared],
         root |-> a.root,
         other_root |-> Location_relative(b.root, ofs),
         other |-> [b.st EXCEPT !.shared = shared],
         new |-> [uniq |-> <<>>, shared |-> shared]]

\* the tree a Location resolves to in a stash: leaves are elements, a child
\* that names a node is the tree of that node
\* whether a Location names a node of the stash
Stash_has(st, loc) ==
    IF loc.depth = 0 THEN loc.ofs < Len(st.uniq)
    ELSE loc.depth <= Len(st.shared) /\ loc.ofs < Len(st.shared[loc.depth])

RECURSIVE Resolve(_, _)
Resolve(st, loc) ==
    IF ~Stash_has(st, loc) THEN <<"dangling">>
    ELSE LET node == Stash_get(st, loc)
         IN  [i \in 1..Len(node) |->
                 IF node[i].leaf THEN <<"leaf", node[i].t>>
                 ELSE <<"node", Resolve(st, Location_relative(node[i].location, loc.depth))>>]

\* the elements a stash tree holds
RECURSIVE TreeLeaves(_)
TreeLeaves(tree) ==
    IF tree = <<>> THEN {}
    ELSE (IF Head(tree)[1] = "leaf" THEN {Head(tree)[2]} ELSE TreeLeaves(Head(tree)[2]))
         \cup TreeLeaves(Tail(tree))

\* the element that the next edit adds: one more than any a tree holds
NextLeaf == 1 + Cardinality(UNION {TreeLeaves(abs[s]) : s \in Slots})

\* the outcome of an operation that leaves collection s as c, resolving to tree
Stashed(s, c, tree, r) ==
    /\ Idle
    /\ colls' = [colls EXCEPT ![s] = c]
    /\ abs' = [abs EXCEPT ![s] = tree]
    /\ ret' = Some(r)
    /\ UNCHANGED <<nodes, owner, handles, backend, prov, iter, out, panicked>>

\* a node is put and not linked from the root
PutLoose(s) ==
    /\ s \in Slots
    /\ Stashed(s, [colls[s] EXCEPT !.stash = Stash_put(@, <<new_leaf(0)>>).st], abs[s],
               [op |-> "put", s |-> s])

\* a new root is put over the old one, with a new element beside it
PutOver(s) ==
    /\ s \in Slots
    /\ NextLeaf <= NElem
    /\ LET c == colls[s]
           p == Stash_put(c.stash, <<new_node(c.root, None), new_leaf(NextLeaf)>>)
       IN  Stashed(s, [root |-> p.loc, stash |-> p.st],
                   << <<"node", abs[s]>>, <<"leaf", NextLeaf>> >>,
                   [op |-> "put", s |-> s])

\* the root is taken by get_mut and an element is appended to it
Lift(s) ==
    /\ s \in Slots
    /\ NextLeaf <= NElem
    /\ LET c == colls[s]
           g == Stash_get_mut(c.stash, c.root)
           node == Stash_get(g.st, g.loc)
       IN  Stashed(s, [root |-> g.loc,
                       stash |-> Stash_write(g.st, g.loc, Append(node, new_leaf(NextLeaf)))],
                   Append(abs[s], <<"leaf", NextLeaf>>),
                   [op |-> "get_mut", s |-> s, was |-> c.root, before |-> c.stash,
                    now |-> g.loc, after |-> g.st])

\* the root and then its first child are taken by get_mut, the root is made to
\* name the child where it now lies, and an element is appended to the child
LiftChild(s) ==
    /\ s \in Slots
    /\ NextLeaf <= NElem
    /\ abs[s] # <<>> /\ abs[s][1][1] = "node"
    /\ LET c == colls[s]
           g == Stash_get_mut(c.stash, c.root)
           rnode == Stash_get(g.st, g.loc)
           h == Stash_get_mut(g.st, rnode[1].location)
           st1 == Stash_write(h.st, g.loc, [rnode EXCEPT ![1].location = h.loc])
           cnode == Stash_get(st1, h.loc)
       IN  Stashed(s, [root |-> g.loc,
                       stash |-> Stash_write(st1, h.loc, Append(cnode, new_leaf(NextLeaf)))],
                   [abs[s] EXCEPT ![1] = <<"node", Append(@[2], <<"leaf", NextLeaf>>)>>],
                   [op |-> "get_mut", s |-> s, was |-> rnode[1].location, before |-> g.st,
                    now |-> h.loc, after |-> h.st])

\* clone_mut: the stash returned becomes the stash of a new collection with
\* the same root
StashClone(s) ==
    /\ Idle
    /\ s \in Slots
    /\ Len(colls) < MaxColl
    /\ LET r == Stash_clone_mut(colls[s].stash, colls[s].root)
       IN  /\ colls' = Append([colls EXCEPT ![s] = [root |-> r.root, stash |-> r.st]],
                              [root |-> r.root, stash |-> r.new])
           /\ abs' = Append(abs, abs[s])
           /\ ret' = Some([op |-> "clone", s |-> s, was |-> colls[s]])
    /\ UNCHANGED <<nodes, owner, handles, backend, prov, iter, out, panicked>>

\* merge: the stash returned becomes the stash of a new collection with the
\* root of b
StashMerge(a, b) ==
    /\ Idle
    /\ a \in Slots /\ b \in Slots /\ a # b
    /\ Len(colls) < MaxColl
    /\ LET r == Stash_merge(colls[a].stash, colls[a].root, colls[b].root, colls[b].stash)
       IN  /\ colls' = Append([colls EXCEPT ![a] = [root |-> r.root, stash |-> r.st],
                                            ![b] = [root |-> r.other_root, stash |-> r.other]],
                              [root |-> r.other_root, stash |-> r.new])
           /\ abs' = Append(abs, abs[b])
           /\ ret' = Some([op |-> "merge", a |-> a, b |-> b, was |-> <<colls[a], colls[b]>>])
    /\ UNCHANGED <<nodes, owner, handles, backend, prov, iter, out, panicked>>

\* the two first collections take MaxLen elements between them; a loose node
\* is put into the hot tier of the first collection once it has been emptied
\* by the first clone or merge; the first collection is cloned, and merged
\* with the second
NextStash ==
    \/ colls[1].stash.uniq = <<>> /\ Len(colls) = 3 /\ PutLoose(1)
    \/ \E s \in 1..2 : NextLeaf <= MaxLen /\ PutOver(s)
    \/ \E s \in 1..2 : NextLeaf <= MaxLen /\ Lift(s)
    \/ NextLeaf <= MaxLen /\ LiftChild(1)
    \/ StashClone(1)
    \/ StashMerge(1, 2)

\* two collections, each with a stash of its own that holds an empty root
SpecStash ==
    /\ colls = [s \in 1..2 |-> [root |-> Location_new(0, 0),
                                stash |-> Stash_put(Stash_new, Node_new).st]]
    /\ abs = <<<<>>, <<>>>>
    /\ prov = <<>>
    /\ nodes = <<>> /\ owner = <<>> /\ handles = 0 /\ backend = <<>>
    /\ iter = None /\ out = <<>> /\ ret = None /\ panicked = FALSE
    /\ [][NextStash]_vars

\* every root resolves, in its stash, to the tree its collection holds
StashTrees == \A s \in Slots : Resolve(colls[s].stash, colls[s].root) = abs[s]

\* the shared tiers a stash had are all among those it has, in their order
\* and with their contents
TiersKept(was, now) ==
    \E k \in 0..(Len(now) - Len(was)) : SubSeq(now, k + 1, k + Len(was)) = was

\* C25: get_mut on a Location of depth > 0 appends a copy of the node to the
\* hot tier, makes the Location name that copy at depth 0 and leaves every
\* shared tier as it was; on a Location of depth 0 it hands out the node of the
\* hot tier where it lies and rewrites nothing; and no step of put, get_mut,
\* clone or merge changes a node that lies in a shared tier
C25_CopyOnWrite ==
    /\ [](\A g \in Last("get_mut") :
             IF g.was.depth > 0
             THEN /\ g.now = Location_new(Len(g.before.uniq), 0)
                  /\ Len(g.after.uniq) = Len(g.before.uniq) + 1
                  /\ SubSeq(g.after.uniq, 1, Len(g.before.uniq)) = g.before.uniq
                  /\ Resolve(g.after, g.now) = Resolve(g.before, g.was)
                  /\ g.after.shared = g.before.shared
             ELSE g.now = g.was /\ g.after = g.before)
    /\ [][\A s \in Slots : TiersKept(colls[s].stash.shared, colls'[s].stash.shared)]_vars

\* get_mut has lifted, from the second shared tier or one behind it, a node
\* that has a node for a child
C25_Witness ==
    \E g \in Last("get_mut") :
        /\ g.was.depth >= 2
        /\ \E i \in 1..Len(Stash_get(g.before, g.was)) : ~Stash_get(g.before, g.was)[i].leaf

\* get_mut has been called on a node of the hot tier of a stash that has
\* shared tiers
C25_WitnessInPlace ==
    \E g \in Last("get_mut") : g.was.depth = 0 /\ g.before.shared # <<>>

\* C26: when clone_mut freezes the hot tier into a new shared tier at the head
\* of the tier list, the root of the original and the root of the clone resolve
\* to the tree the root resolved to before, node for node, the hot tier of the
\* original is empty afterwards, and the clone has an empty hot tier and the
\* shared tiers of the original
C26_ClonePreserves ==
    \A g \in Last("clone") :
        g.was.root.depth = 0 =>
            /\ colls[g.s].stash.shared = <<g.was.stash.uniq>> \o g.was.stash.shared
            /\ Resolve(colls[g.s].stash, colls[g.s].root) = Resolve(g.was.stash, g.was.root)
            /\ Resolve(colls[Len(colls)].stash, colls[Len(colls)].root)
                   = Resolve(g.was.stash, g.was.root)
            /\ colls[g.s].stash.uniq = <<>>
            /\ colls[Len(colls)].stash.uniq = <<>>
            /\ colls[Len(colls)].stash.shared = colls[g.s].stash.shared

\* a stash that has shared tiers already is cloned when its root, in the hot
\* tier, has a node of a shared tier for a child
C26_Witness ==
    \E g \in Last("clone") :
        /\ g.was.root.depth = 0
        /\ g.was.stash.shared # <<>>
        /\ \E i \in 1..Len(Stash_get(g.was.stash, g.was.root)) :
               LET c == Stash_get(g.was.stash, g.was.root)[i]
               IN  ~c.leaf /\ c.location.depth > 0

\* the shared tiers of a stash after clone_mut
Frozen(c) == IF c.root.depth = 0 THEN <<c.stash.uniq>> \o c.stash.shared ELSE c.stash.shared

\* C27: after merge the shared tiers of other follow those of self, the root
\* of self resolves to the tree it resolved to before, the root of other is
\* shifted by the number of shared tiers self had and resolves, in the merged
\* store, to the tree it resolved to in other before; and whatever is done to
\* either afterwards, every collection keeps its tree
C27_MergePreserves ==
    /\ StashTrees
    /\ \A g \in Last("merge") :
           /\ colls[g.a].stash.shared = Frozen(g.was[1]) \o Frozen(g.was[2])
           /\ colls[g.b].stash.shared = colls[g.a].stash.shared
           /\ Resolve(colls[g.a].stash, colls[g.a].root) = Resolve(g.was[1].stash, g.was[1].root)
           /\ colls[g.b].root.ofs = g.was[2].root.ofs
           /\ colls[g.b].root.depth
                  = (IF g.was[2].root.depth = 0 THEN 1 ELSE g.was[2].root.depth)
                    + Len(Frozen(g.was[1]))
           /\ Resolve(colls[g.a].stash, colls[g.b].root) = Resolve(g.was[2].stash, g.was[2].root)
           /\ Resolve(colls[g.b].stash, colls[g.b].root) = Resolve(g.was[2].stash, g.was[2].root)
           /\ Resolve(colls[Len(colls)].stash, colls[g.b].root)
                  = Resolve(g.was[2].stash, g.was[2].root)
           /\ Resolve(colls[Len(colls)].stash, colls[g.a].root)
                  = Resolve(g.was[1].stash, g.was[1].root)

\* two stashes that hold trees of two levels and differ are merged
C27_Witness ==
    \E g \in Last("merge") :
        /\ \A j \in 1..2 : \E i \in 1..Len(abs[j]) : abs[j][i][1] = "node"
        /\ abs[1] # abs[2]
        /\ g.was[1].stash.shared # <<>>

\* both stashes of a merge have since been written to
C27_WitnessAfter ==
    /\ Len(colls) >= 3
    /\ colls[1].stash.shared = colls[2].stash.shared
    /\ colls[2].root.depth = 0 /\ colls[1].root.depth = 0
    /\ abs[3] # abs[1] /\ abs[3] # abs[2]

\* C28: split, concat and splice of Vectors, union of Sets and merge of Maps
\* leave the element sequence and the top-level metadata of the receiver and
\* of the argument, and of every other collection there is, as they were: the
\* leaves under the root, the metadata the collection holds and the metadata
\* folded from its root node are the same after the step as before
C28_InputsUnchanged ==
    [][Len(colls') > Len(colls)
       => \A s \in Slots :
              /\ Leaves(nodes', colls'[s].root, 1) = Leaves(nodes, colls[s].root, 1)
              /\ colls'[s].meta = colls[s].meta
              /\ Call("Node_meta", <<colls[s].kind, nodes'[colls'[s].root]>>)
                     = Call("Node_meta", <<colls[s].kind, nodes[colls[s].root]>>)]_vars

\* a Vector of two levels or more that was filled by pushes has been split
\* inside
C28_Witness ==
    /\ prov[Len(colls)].op = "split_right"
    /\ prov[1].op = "push"
    /\ prov[Len(colls)].i \in 1..(Len(abs[1]) - 1)
    /\ Height(1) >= 2

\* two non-empty collections have been joined: the parts of a Vector by
\* concat, or by splice inside the receiver, two Sets by union, two Maps by merge
C28_WitnessJoined ==
    /\ prov[Len(colls)].op \in {"concat", "splice", "union", "merge"}
    /\ abs[Len(colls) - 1] # <<>> /\ abs[Len(colls) - 2] # <<>>
    /\ prov[Len(colls)].op = "splice" => prov[Len(colls)].i \in 1..(Len(abs[2]) - 1)

(* --------------------------- iterator exhaustion -------------------------- *)
\* next() is called again on an iterator that has returned None
IterNextAfter ==
    /\ ~panicked
    /\ IsSome(iter)
    /\ \E i \in 1..Len(out) : ~IsSome(out[i])
    /\ Len(out) < MaxLen + 3
    /\ LET it == Unwrap(iter)
           n == Call("Iter_next", <<Store, colls[it.s].root, it>>)
       IN  /\ iter' = Some(n.it)
           /\ out' = Append(out, n.item)
           /\ panicked' = n.panic
    /\ UNCHANGED <<nodes, owner, handles, backend, colls, abs, prov, ret>>

\* a collection of any kind is filled and iterated from either end, and the
\* iterator is called on after its first None
NextExhaust ==
    \/ \E t \in Elems : VectorPush(1, t)
    \/ \E t \in Elems : SetInsert(1, t)
    \/ \E k \in Elems : MapInsert(1, k, 1)
    \/ \E R \in {"Beginning", "End"} : IterNew(1, R)
    \/ IterNext
    \/ IterNextAfter
    \/ IterDrop

SpecExhaust == (\E kind \in Kinds : InitWith(kind, 1)) /\ [][NextExhaust]_vars

\* C29: once next() has returned None, every later call returns None and none
\* fails; on an empty collection the first call returns None, and so does
\* every call after it
C29_ExhaustionStable ==
    IsSome(iter)
    => /\ \A i \in 1..Len(out), j \in 1..Len(out) : (i < j /\ out[i] = None) => out[j] = None
       /\ ~panicked
       /\ abs[Unwrap(iter).s] = <<>> => \A i \in 1..Len(out) : out[i] = None

(* ------------------------- split at or past the end ----------------------- *)
\* a Vector is filled by pushes and then split at 0, at its length or past it
NextSplitEnd ==
    \/ \E t \in Elems : Len(colls) = 1 /\ VectorPush(1, t)
    \/ \E i \in 0..(MaxLen + 1) : (i = 0 \/ i >= Len(abs[1])) /\ VectorSplit(1, i)

SpecSplitEnd == InitWith("vector", 1) /\ [][NextSplitEnd]_vars

\* the collection in slot s has the elements of the one in slot v, and equals it
EqualTo(s, v) == Elements(s) = Elements(v) /\ Collection_eq(colls[s], colls[v])

\* the collection in slot s is empty
IsEmpty(s) == Elements(s) = <<>> /\ colls[s].meta = None

\* C30: a split of a Vector V, the empty Vector included, at an index that is
\* the length of V or more does not fail and returns a collection equal to V
\* and an empty one; a split at 0 returns an empty collection and one equal to V
C30_SplitPastEnd ==
    /\ ~panicked
    /\ \A s \in Slots :
           prov[s].op = "split_left"
           => /\ prov[s].i >= Len(abs[prov[s].of]) => EqualTo(s, prov[s].of) /\ IsEmpty(s + 1)
              /\ prov[s].i = 0 => IsEmpty(s) /\ EqualTo(s + 1, prov[s].of)

====
